---- MODULE Spec2Model ----
(***************************************************************************)
(* karakeepbot: the bounded file-ingestion pipeline.                       *)
(*                                                                         *)
(*   fileprocessor.Processor.Process  (internal/fileprocessor)             *)
(*   filevalidator.ImageValidator     (unnamed/part_005)                   *)
(*   Karakeep.CreateAsset             (internal/karakeepbot/karakeep.go)   *)
(*   KarakeepBot.handler, handlePhotoMessage, processKaraKeepBookmark      *)
(*                                    (unnamed/part_004)                   *)
(*                                                                         *)
(* Twelve specifications share the variables:                              *)
(*   SpecProcess  Process called directly, as the package's test does      *)
(*   SpecLimit    SpecProcess with maxsize up to the top of its type       *)
(*   Spec         one message through KarakeepBot.handler                  *)
(*   SpecLive     Spec, with the handler's steps weakly fair               *)
(*   SpecUpload   one CreateAsset call: producer goroutine, pipe, HTTP     *)
(*   SpecUploadBuild  SpecUpload, the request possibly failing to be built *)
(*   SpecIngest   one photo: Process, then CreateAsset step by step        *)
(*   SpecConcurrent  several photo ingestions on one temp directory        *)
(*   SpecLegacy      the same in the handler naming files by photo ID      *)
(*   SpecValidator   ImageValidator called on a file, as its test does     *)
(*   SpecBookmark    NewImageBookmark called on a photo list               *)
(*   SpecConfig      start-up: config.New, then the Processor and the bot  *)
(***************************************************************************)
EXTENDS Integers, Sequences, FiniteSets, TLC

\* ------------------------------------------------------------------ bounds

\* Largest configured fileprocessor.maxsize explored (bytes).
MaxMaxsize == 14

\* How far past maxsize a response body may run.
MaxOver == 2

\* Largest number of Pending answers the backend gives before it must settle.
MaxPending == 2

\* Largest local file handed to CreateAsset, in io.Copy chunks.
MaxChunks == 2

\* Photo messages handled at the same time.
MaxIngestions == 2

\* Distinct random suffixes os.CreateTemp can draw for "karakeepbot-*.tmp".
MaxNames == 3

\* Longest photo list of a message, and the largest FileSize and pixel count
\* of a photo.
MaxPhotos == 3

\* Bits of the signed integers holding maxsize and the byte counts: int64 in
\* the program, narrowed here so that the largest value can be explored.
IntWidth == 6

\* Longest fileprocessor.mimetypes list explored.
MaxMimetypes == 2
MaxFileSize == 2
MaxPixels == 2

\* ------------------------------------------------------------------ state

VARIABLES
    \* --- Processor.Process (fileprocessor.go:56-125)
    ppc,           \* position inside Process
    maxsize,       \* p.maxsize
    validator,     \* "nil" or "ImageValidator"
    body,          \* the response: [kind, len, status], or NoBody
    bytesWritten,  \* bytes io.Copy put into the temp file
    path,          \* named result path
    contentType,   \* named result contentType
    err,           \* named result err, by errors.Is category
    cause,         \* which statement produced err
    onDisk,        \* the temp file exists in tempdir
    tmpOpen,       \* tmpFile's handle is open
    closes,        \* calls of tmpFile.Close()
    removes,       \* the callers of Cleanup (os.Remove) on the temp file, in order
    removed,       \* how many of those calls removed the file
    \* --- KarakeepBot.handler (part_004)
    impl,          \* which handler of the repository runs
    allowlist,     \* kb.allowlist
    threads,       \* kb.threads
    chatId,        \* msg.Chat.ID
    threadId,      \* msg.MessageThreadID
    msg,           \* the message kind: "photo", "link", "text", "empty"
    hpc,           \* position inside the handler
    hpmErr,        \* handlePhotoMessage's named result err
    assets,        \* CreateAsset calls that returned an asset
    bookmarks,     \* CreateBookmark calls that created a bookmark
    sleeps,        \* time.Sleep(waitInterval) calls made
    taggingStatus, \* taggingStatus of the snapshot held
    fetchLog,      \* what each RetrieveBookmarkById call returned, in order
    warnings,      \* SendReply warnings sent to the user
    replies,       \* tagged replacements sent (SendNewMessage / SendPhotoWithCaption)
    deleted,       \* DeleteOriginalMessage succeeded
    outcome,       \* how the handler ended
    \* --- Karakeep.CreateAsset (karakeep.go:96-178)
    cpc,           \* position of CreateAsset itself
    gpc,           \* position of the producer goroutine
    goErr,         \* the goroutine's err variable
    firstFailure,  \* the first failure the goroutine met, reported or not
    fileOpen,      \* the local file's handle is open
    chunksLeft,    \* chunks of the file io.Copy has still to write
    copied,        \* chunks io.Copy has written into the multipart file field
    pending,       \* the bytes of a pipe Write not yet read by the HTTP side
    writing,       \* the goroutine is inside a pipe Write
    pipeWriterClosed,  \* pipeWriter.Close() has run
    pipeReaderClosed,  \* the HTTP side has closed the request body
    errChan,       \* errChan's one-slot buffer
    sent,          \* the error the goroutine has sent on errChan, "nil" if none
    errChanClosed, \* close(errChan) has run
    http,          \* the HTTP call: "idle", "sending", "waiting", "returned"
    httpErr,       \* the error of PostAssetsWithBodyWithResponse
    status,        \* response.StatusCode(), "none" without a response
    ctxCancelled,  \* ctx.Err() != nil
    cancelClean,   \* ctx was cancelled before the goroutine had met any failure
    result,        \* what CreateAsset returned: [kind, detail]
    \* --- several handlePhotoMessage calls on one Processor (part_004:468-499)
    tempdir,       \* names of the files present in p.tempdir
    ing,           \* per ingestion: [pc, path, overlapped], path 0 before
                   \* os.CreateTemp, overlapped: another ingestion held a
                   \* file when this one created its own
    \* --- NewImageBookmark (bookmark_type.go:194-269)
    bpc,           \* "idle", "call", "returned"
    photos,        \* the photo list: a sequence of [size, pixels]
    best,          \* BestPhotoFileID as the index of its photo, 0 for ""
    \* --- start-up: config.New, fileprocessor.New, karakeepbot.New
    bootpc,        \* "idle", "load", "loaded", "processor", "running", "fatal"
    config         \* [Allowlist, Maxsize, Timeout, Mimetypes]

procVars == <<ppc, maxsize, validator, body, bytesWritten, path, contentType,
              err, cause, onDisk, tmpOpen, closes, removes, removed>>

botVars == <<impl, allowlist, threads, chatId, threadId, msg, hpc, hpmErr, assets,
             bookmarks, sleeps, taggingStatus, fetchLog, warnings, replies, deleted,
             outcome>>

upVars == <<cpc, gpc, goErr, firstFailure, fileOpen, chunksLeft, copied, pending, writing,
            pipeWriterClosed, pipeReaderClosed, errChan, sent, errChanClosed, http, httpErr,
            status, ctxCancelled, cancelClean, result>>

ccVars == <<tempdir, ing>>

bmVars == <<bpc, photos, best>>

cfgVars == <<bootpc, config>>

restVars == <<ccVars, bmVars, cfgVars>>

vars == <<procVars, botVars, upVars, ccVars, bmVars, cfgVars>>

\* ------------------------------------------------------------------ values

NoBody == [kind |-> "none", len |-> 0, status |-> 0]

\* Leading bytes a body can have: a PNG, a JPEG, a RIFF/WEBP container, text.
Kinds == {"png", "jpeg", "webp", "text"}

\* Leading bytes a local file can have: those, a GIF, a RIFF/WAVE container.
FileKinds == Kinds \cup {"gif", "wave"}

Min(a, b) == IF a < b THEN a ELSE b

\* net/http.DetectContentType on the first n bytes of a body of this kind.
\* PNG: exact 8-byte signature; JPEG: exact 3-byte signature; WEBP: the masked
\* 14-byte signature RIFF????WEBPVP. What matches nothing is text/plain unless
\* it holds a binary byte (0x1A at PNG offset 6, 0x00 at RIFF offset 4). GIF:
\* the 6-byte GIF87a/GIF89a; WAVE: the masked 12-byte RIFF????WAVE.
DetectContentType(kind, n) ==
    CASE kind = "png"  /\ n >= 8  -> "image/png"
      [] kind = "png"  /\ n = 7   -> "application/octet-stream"
      [] kind = "jpeg" /\ n >= 3  -> "image/jpeg"
      [] kind = "webp" /\ n >= 14 -> "image/webp"
      [] kind = "webp" /\ n >= 5  -> "application/octet-stream"
      [] kind = "gif"  /\ n >= 6  -> "image/gif"
      [] kind = "wave" /\ n >= 12 -> "audio/wave"
      [] kind = "wave" /\ n >= 5  -> "application/octet-stream"
      [] OTHER                    -> "text/plain; charset=utf-8"

\* A validator that accepts whatever the sniff says.
ImageValidatorAcceptsAll(kind, n) == <<DetectContentType(kind, n), "nil">>

\* A validator that relies on the generic sniff alone, WebP included.
ImageValidatorSniffOnly(kind, n) ==
    IF DetectContentType(kind, n) \in {"image/jpeg", "image/png", "image/webp"}
    THEN <<DetectContentType(kind, n), "nil">>
    ELSE <<"", "unsupported image format">>

\* filevalidator.ImageValidator on a file holding the first n bytes of a body of
\* this kind, seek and read having succeeded: <<contentType, error>>.
ImageValidator(kind, n) ==
    IF kind = "webp" /\ n >= 12
    THEN <<"image/webp", "nil">>
    ELSE IF DetectContentType(kind, n) \in {"image/jpeg", "image/png"}
         THEN <<DetectContentType(kind, n), "nil">>
         ELSE <<"", "unsupported image format">>

\* ------------------------------------------------------------------ Process

\* A reader limited to maxsize itself: no sentinel byte past the ceiling.
LimitedReaderNoSentinel(m) == m

\* The largest value of the signed integer type.
MaxInt64 == 2^(IntWidth - 1) - 1

\* Signed addition wraps around.
Int64(x) == IF x > MaxInt64 THEN x - 2^IntWidth ELSE x

\* A reader without any limit.
LimitedReaderUnlimited(m) == MaxInt64

\* io.LimitedReader{R: resp.Body, N: p.maxsize + 1}
LimitedReaderN(m) == Int64(m + 1)

\* What io.Copy writes when nothing fails: the body, cut at the reader's limit;
\* a LimitedReader whose N is not positive returns EOF at once.
CopiedBytes(len, m) == IF LimitedReaderN(m) <= 0 THEN 0 ELSE Min(len, LimitedReaderN(m))

\* A size check that also rejects a payload of exactly maxsize bytes.
ExceedsLimitInclusive(w, m) == w >= m

\* if bytesWritten > p.maxsize
ExceedsLimit(w, m) == w > m

\* A deferred function that removes the file only for a rejected payload.
DeferRemovesRejectedOnly(e) == e = "ErrValidationFailed"

\* The deferred function removes the file when the call ends with an error.
DeferRemoves(e) == e # "nil"

\* return "", "", fmt.Errorf(...): every error return of the body.
Fail(category, why, next) ==
    /\ path' = ""
    /\ contentType' = ""
    /\ err' = category
    /\ cause' = why
    /\ ppc' = next

\* tmpFile, err := os.CreateTemp(p.tempdir, "karakeepbot-*.tmp"); on failure the
\* call returns before the deferred function is registered.
ProcCreateTemp ==
    /\ ppc = "createTemp"
    /\ \/ /\ Fail("ErrProcessingFailed", "createTemp", "returned")
          /\ UNCHANGED <<onDisk, tmpOpen>>
       \/ /\ onDisk' = TRUE
          /\ tmpOpen' = TRUE
          /\ ppc' = "get"
          /\ UNCHANGED <<path, contentType, err, cause>>
    /\ UNCHANGED <<maxsize, validator, body, bytesWritten, closes, removes, removed>>
    /\ UNCHANGED <<botVars, upVars>>
    /\ UNCHANGED restVars

\* The status codes the file server answers with.
RespStatuses == {200, 204, 404, 500}

\* A status check that lets every answer through.
StatusUnchecked(st) == TRUE

\* resp.StatusCode != http.StatusOK is the failure: only 200 goes on.
StatusOK(st) == st = 200

\* resp, err := client.Get(fileURL): a transport error or a timeout before the
\* headers; then the status check.
ProcGet ==
    /\ ppc = "get"
    /\ \/ /\ Fail("ErrDownloadFailed", "get", "close")
          /\ UNCHANGED body
       \/ \E k \in Kinds, n \in 0..(maxsize + MaxOver), st \in RespStatuses :
            /\ body' = [kind |-> k, len |-> n, status |-> st]
            /\ IF StatusOK(st)
               THEN /\ ppc' = "copy"
                    /\ UNCHANGED <<path, contentType, err, cause>>
               ELSE Fail("ErrDownloadFailed", "status", "close")
    /\ UNCHANGED <<maxsize, validator, bytesWritten, onDisk, tmpOpen, closes,
                   removes, removed>>
    /\ UNCHANGED <<botVars, upVars>>
    /\ UNCHANGED restVars

\* bytesWritten, err := io.Copy(tmpFile, limitedReader): the copy fails when a
\* read of resp.Body fails (the client's timeout expiring, the connection
\* breaking) or when a write to the temp file fails; both come back the same.
ProcCopy ==
    /\ ppc = "copy"
    /\ \/ \E n \in 0..CopiedBytes(body.len, maxsize), why \in {"bodyRead", "copy"} :
            /\ bytesWritten' = n
            /\ Fail("ErrProcessingFailed", why, "close")
       \/ /\ bytesWritten' = CopiedBytes(body.len, maxsize)
          /\ ppc' = "size"
          /\ UNCHANGED <<path, contentType, err, cause>>
    /\ UNCHANGED <<maxsize, validator, body, onDisk, tmpOpen, closes, removes, removed>>
    /\ UNCHANGED <<botVars, upVars>>
    /\ UNCHANGED restVars

\* if bytesWritten > p.maxsize { return ... ErrValidationFailed ... }
ProcCheckSize ==
    /\ ppc = "size"
    /\ IF ExceedsLimit(bytesWritten, maxsize)
       THEN Fail("ErrValidationFailed", "exceeds", "close")
       ELSE /\ ppc' = "detect"
            /\ UNCHANGED <<path, contentType, err, cause>>
    /\ UNCHANGED <<maxsize, validator, body, bytesWritten, onDisk, tmpOpen, closes,
                   removes, removed>>
    /\ UNCHANGED <<botVars, upVars>>
    /\ UNCHANGED restVars

\* return tmpFile.Name(), contentType, nil
Succeed(ct) ==
    /\ path' = "tmp"
    /\ contentType' = ct
    /\ err' = "nil"
    /\ cause' = "none"
    /\ ppc' = "close"

\* validator != nil: detectedContentType, err := validator(tmpFile). A seek or
\* read error inside the validator comes back like a rejection.
ProcValidate ==
    /\ ppc = "detect"
    /\ validator # "nil"
    /\ \/ Fail("ErrValidationFailed", "validatorIO", "close")
       \/ LET r == ImageValidator(body.kind, bytesWritten) IN
          IF r[2] = "nil"
          THEN Succeed(r[1])
          ELSE Fail("ErrValidationFailed", "validator", "close")
    /\ UNCHANGED <<maxsize, validator, body, bytesWritten, onDisk, tmpOpen, closes,
                   removes, removed>>
    /\ UNCHANGED <<botVars, upVars>>
    /\ UNCHANGED restVars

\* validator == nil: seek to the start, read up to 512 bytes, sniff. A failed
\* seek skips the sniff and leaves contentType empty.
ProcSniff ==
    /\ ppc = "detect"
    /\ validator = "nil"
    /\ \/ Succeed("")
       \/ Fail("ErrProcessingFailed", "read", "close")
       \/ Succeed(DetectContentType(body.kind, bytesWritten))
    /\ UNCHANGED <<maxsize, validator, body, bytesWritten, onDisk, tmpOpen, closes,
                   removes, removed>>
    /\ UNCHANGED <<botVars, upVars>>
    /\ UNCHANGED restVars

\* A deferred function that closes the handle only on the success path and
\* goes straight to the removal on an error.
ProcDeferCloseOnSuccessOnly ==
    /\ ppc = "close"
    /\ IF err = "nil"
       THEN /\ tmpOpen' = FALSE
            /\ closes' = closes + 1
            /\ ppc' = "returned"
       ELSE /\ ppc' = "cleanup"
            /\ UNCHANGED <<tmpOpen, closes>>
    /\ UNCHANGED <<maxsize, validator, body, bytesWritten, path, contentType, err,
                   cause, onDisk, removes, removed>>
    /\ UNCHANGED <<botVars, upVars>>
    /\ UNCHANGED restVars

\* The deferred function, first half: tmpFile.Close(); a close error becomes
\* the result only when err is nil. path and contentType are left as returned.
ProcDeferClose ==
    /\ ppc = "close"
    /\ tmpOpen' = FALSE
    /\ closes' = closes + 1
    /\ \E closeErr \in BOOLEAN :
         LET e == IF err = "nil" /\ closeErr THEN "ErrProcessingFailed" ELSE err IN
         /\ err' = e
         /\ cause' = IF err = "nil" /\ closeErr THEN "close" ELSE cause
         /\ ppc' = IF DeferRemoves(e) THEN "cleanup" ELSE "returned"
    /\ UNCHANGED <<maxsize, validator, body, bytesWritten, path, contentType, onDisk,
                   removes, removed>>
    /\ UNCHANGED <<botVars, upVars>>
    /\ UNCHANGED restVars

\* Processor.Cleanup: os.Remove(filePath). A failed removal leaves the file.
Cleanup(who, ok) ==
    /\ removes' = Append(removes, who)
    /\ IF ok /\ onDisk
       THEN /\ onDisk' = FALSE
            /\ removed' = removed + 1
       ELSE UNCHANGED <<onDisk, removed>>

\* The deferred function, second half: if err != nil { _ = p.Cleanup(name) }
ProcDeferCleanup ==
    /\ ppc = "cleanup"
    /\ \E ok \in BOOLEAN : Cleanup("Process", ok)
    /\ ppc' = "returned"
    /\ UNCHANGED <<maxsize, validator, body, bytesWritten, path, contentType, err,
                   cause, tmpOpen, closes>>
    /\ UNCHANGED <<botVars, upVars>>
    /\ UNCHANGED restVars

\* ------------------------------------------------- Process called directly

NoResult == [kind |-> "none", detail |-> "none"]

Ingestions == 1..MaxIngestions

Names == 1..MaxNames

\* No photo message is being handled on the shared temp directory.
CcIdle ==
    /\ tempdir = {}
    /\ ing = [i \in Ingestions |-> [pc |-> "none", path |-> 0, overlapped |-> FALSE]]

\* No image bookmark is being built.
BmIdle ==
    /\ bpc = "idle"
    /\ photos = <<>>
    /\ best = 0

\* No configuration is being loaded.
NoConfig == [Allowlist |-> <<>>, Maxsize |-> 0, Timeout |-> 0, Mimetypes |-> <<>>]

CfgIdle ==
    /\ bootpc = "idle"
    /\ config = NoConfig

RestIdle == CcIdle /\ BmIdle /\ CfgIdle

UpIdle ==
    /\ cpc = "idle"
    /\ gpc = "idle"
    /\ goErr = "nil"
    /\ firstFailure = "none"
    /\ fileOpen = FALSE
    /\ chunksLeft = 0
    /\ copied = 0
    /\ pending = "none"
    /\ writing = FALSE
    /\ pipeWriterClosed = FALSE
    /\ pipeReaderClosed = FALSE
    /\ errChan = <<>>
    /\ sent = "nil"
    /\ errChanClosed = FALSE
    /\ http = "idle"
    /\ httpErr = "nil"
    /\ status = "none"
    /\ ctxCancelled = FALSE
    /\ cancelClean = FALSE
    /\ result = NoResult

BotIdle ==
    /\ impl = "none"
    /\ allowlist = {}
    /\ threads = {}
    /\ chatId = 0
    /\ threadId = 0
    /\ msg = "none"
    /\ hpc = "idle"
    /\ hpmErr = "nil"
    /\ assets = 0
    /\ bookmarks = 0
    /\ sleeps = 0
    /\ taggingStatus = "none"
    /\ fetchLog = <<>>
    /\ warnings = 0
    /\ replies = 0
    /\ deleted = FALSE
    /\ outcome = "none"

ProcEntry ==
    /\ ppc = "createTemp"
    /\ body = NoBody
    /\ bytesWritten = 0
    /\ path = ""
    /\ contentType = ""
    /\ err = "nil"
    /\ cause = "none"
    /\ onDisk = FALSE
    /\ tmpOpen = FALSE
    /\ closes = 0
    /\ removes = <<>>
    /\ removed = 0

\* processor.Process(server.URL+tt.urlPath, tt.validator)
InitProcess ==
    /\ maxsize \in 1..MaxMaxsize
    /\ validator \in {"nil", "ImageValidator"}
    /\ ProcEntry
    /\ BotIdle
    /\ UpIdle
    /\ RestIdle

\* Process is called on a Processor whose maxsize is small, or at the top of
\* its integer type.
InitLimit ==
    /\ maxsize \in {1, MaxInt64 - 1, MaxInt64}
    /\ validator \in {"nil", "ImageValidator"}
    /\ ProcEntry
    /\ BotIdle
    /\ UpIdle
    /\ RestIdle

\* if filePath != "" { defer processor.Cleanup(filePath) }
TestCleanup ==
    /\ ppc = "returned"
    /\ path # ""
    /\ \E ok \in BOOLEAN : Cleanup("test", ok)
    /\ ppc' = "cleaned"
    /\ UNCHANGED <<maxsize, validator, body, bytesWritten, path, contentType, err,
                   cause, tmpOpen, closes>>
    /\ UNCHANGED <<botVars, upVars>>
    /\ UNCHANGED restVars

NextProcess ==
    \/ ProcCreateTemp
    \/ ProcGet
    \/ ProcCopy
    \/ ProcCheckSize
    \/ ProcValidate
    \/ ProcSniff
    \/ ProcDeferClose
    \/ ProcDeferCleanup
    \/ TestCleanup

SpecProcess == InitProcess /\ [][NextProcess]_vars

SpecLimit == InitLimit /\ [][NextProcess]_vars

\* ------------------------------------------------------ KarakeepBot.handler

\* The chats and threads a message can come from, and the configured lists.
ChatIds == {1, 2}
ThreadIds == {0, 1}
Allowlists == {{}, {1}}
ThreadLists == {{}, {1}}

\* A chat check that lets every chat through.
isChatIdAllowedAlways(id) == TRUE

\* len(kb.allowlist) == 0 || slices.Contains(kb.allowlist, chatId)
isChatIdAllowed(id) == allowlist = {} \/ id \in allowlist

\* len(kb.threads) == 0 || slices.Contains(kb.threads, threadId)
isThreadIdAllowed(id) == threads = {} \/ id \in threads

\* A poll loop that leaves only on Success and retries a Failure like a Pending.
AfterFetchRetriesFailure(s) ==
    CASE s = "success" -> "send"
      [] OTHER         -> "sleep"

\* A poll loop with a maximum attempt count: it gives up on the second Pending.
AfterFetchGivesUp(s) ==
    CASE s = "success" -> "send"
      [] s = "failure" -> "done"
      [] OTHER         -> IF sleeps >= 1 THEN "done" ELSE "sleep"

\* The poll loop's branch on the snapshot's taggingStatus: the next position.
AfterFetch(s) ==
    CASE s = "success" -> "send"
      [] s = "failure" -> "done"
      [] OTHER         -> "sleep"

\* processKaraKeepBookmark's branch: both Success and Failure break the loop.
PkbAfterFetch(s) ==
    CASE s = "success" -> "pkbSend"
      [] s = "failure" -> "pkbSend"
      [] OTHER         -> "pkbSleep"

Pendings == Len(SelectSeq(fetchLog, LAMBDA x : x = "pending"))

\* The backend's answers to a poll; it stays Pending at most MaxPending times.
Answers == {"success", "failure"} \cup (IF Pendings < MaxPending THEN {"pending"} ELSE {})

\* What a 200 answer can hold: a bookmark with one of these statuses, a bookmark
\* without taggingStatus ("missing"), or a body that was not decoded into a
\* bookmark ("undecoded", response.JSON200 nil).
Snapshots == Answers \cup {"missing", "undecoded"}

ProcIdle ==
    /\ ppc = "idle"
    /\ validator = "nil"
    /\ body = NoBody
    /\ bytesWritten = 0
    /\ path = ""
    /\ contentType = ""
    /\ err = "nil"
    /\ cause = "none"
    /\ onDisk = FALSE
    /\ tmpOpen = FALSE
    /\ closes = 0
    /\ removes = <<>>
    /\ removed = 0

\* One update delivered to kb.handler; the bot is configured and idle.
Init ==
    /\ impl \in {"fileprocessor", "legacy", "kkprivate"}
    /\ allowlist \in Allowlists
    /\ threads \in ThreadLists
    /\ chatId \in ChatIds
    /\ threadId \in ThreadIds
    /\ msg \in IF impl = "legacy" THEN {"link", "text", "empty"}
                                  ELSE {"photo", "link", "text", "empty"}
    /\ hpc = "start"
    /\ hpmErr = "nil"
    /\ assets = 0
    /\ bookmarks = 0
    /\ sleeps = 0
    /\ taggingStatus = "none"
    /\ fetchLog = <<>>
    /\ warnings = 0
    /\ replies = 0
    /\ deleted = FALSE
    /\ outcome = "none"
    /\ maxsize = MaxMaxsize
    /\ ProcIdle
    /\ UpIdle
    /\ RestIdle

End(how) ==
    /\ hpc' = "done"
    /\ outcome' = how

\* handler, up to parseMessage's switch: the allowlist checks, then the message
\* kind decides between handlePhotoMessage, a link or text bookmark, and an error.
HandlerReceive ==
    /\ hpc = "start"
    /\ IF ~isChatIdAllowed(chatId) \/ ~isThreadIdAllowed(threadId)
       THEN End("notAllowed")
       ELSE CASE msg = "photo" /\ impl = "fileprocessor" ->
                   /\ hpc' = "getFileURL"
                   /\ UNCHANGED outcome
              [] msg = "empty" -> End("parseFailed")
              [] OTHER ->
                   /\ hpc' = CASE impl = "legacy"    -> "pkbCreateBookmark"
                               [] impl = "kkprivate" -> "kkCreateBookmark"
                               [] OTHER              -> "createBookmark"
                   /\ UNCHANGED outcome
    /\ UNCHANGED <<impl, allowlist, threads, chatId, threadId, msg, hpmErr, assets,
                   bookmarks, sleeps, taggingStatus, fetchLog, warnings, replies,
                   deleted>>
    /\ UNCHANGED procVars
    /\ UNCHANGED upVars
    /\ UNCHANGED restVars

\* handlePhotoMessage: kb.telegram.GetFileURL, then the call of Process(fileURL, nil).
HpmGetFileURL ==
    /\ hpc = "getFileURL"
    /\ \/ /\ hpmErr' = "couldn't get file URL"
          /\ warnings' = warnings + 1
          /\ End("parseFailed")
          /\ UNCHANGED ppc
       \/ /\ hpc' = "process"
          /\ ppc' = "createTemp"
          /\ UNCHANGED <<hpmErr, warnings, outcome>>
    /\ UNCHANGED <<impl, allowlist, threads, chatId, threadId, msg, assets, bookmarks,
                   sleeps, taggingStatus, fetchLog, replies, deleted>>
    /\ UNCHANGED <<maxsize, validator, body, bytesWritten, path, contentType, err,
                   cause, onDisk, tmpOpen, closes, removes, removed>>
    /\ UNCHANGED upVars
    /\ UNCHANGED restVars

\* handlePhotoMessage after Process returned: on an error it warns the user and
\* returns; otherwise it registers the deferred Cleanup(filePath) and goes on.
HpmProcessed ==
    /\ hpc = "process"
    /\ ppc = "returned"
    /\ IF err # "nil"
       THEN /\ hpmErr' = "couldn't process image"
            /\ warnings' = warnings + 1
            /\ End("parseFailed")
       ELSE /\ hpc' = "createAsset"
            /\ UNCHANGED <<hpmErr, warnings, outcome>>
    /\ UNCHANGED <<impl, allowlist, threads, chatId, threadId, msg, assets, bookmarks,
                   sleeps, taggingStatus, fetchLog, replies, deleted>>
    /\ UNCHANGED procVars
    /\ UNCHANGED upVars
    /\ UNCHANGED restVars

\* The handler's ctx is cancelled while Process(fileURL, nil) is downloading.
\* Process takes no context and its client.Get(fileURL) carries none, so the
\* cancellation changes nothing inside Process.
HandlerCtxCancel ==
    /\ hpc = "process"
    /\ ppc \in {"get", "copy"}
    /\ ~ctxCancelled
    /\ ctxCancelled' = TRUE
    /\ UNCHANGED <<cpc, gpc, goErr, firstFailure, fileOpen, chunksLeft, copied, pending, writing,
                   pipeWriterClosed, pipeReaderClosed, errChan, sent, errChanClosed, http,
                   httpErr, status, cancelClean, result>>
    /\ UNCHANGED <<procVars, botVars>>
    /\ UNCHANGED restVars

\* A handlePhotoMessage whose cleanup is not deferred: a failed upload returns
\* at once and only the success path reaches the Cleanup call.
HpmCreateAssetNoDefer ==
    /\ hpc = "createAsset"
    /\ \/ /\ ~ctxCancelled
          /\ assets' = assets + 1
          /\ hpc' = "hpmCleanup"
          /\ UNCHANGED <<hpmErr, warnings, outcome>>
       \/ /\ hpmErr' = "couldn't upload asset"
          /\ warnings' = warnings + 1
          /\ End("parseFailed")
          /\ UNCHANGED assets
    /\ UNCHANGED <<impl, allowlist, threads, chatId, threadId, msg, bookmarks, sleeps,
                   taggingStatus, fetchLog, replies, deleted>>
    /\ UNCHANGED procVars
    /\ UNCHANGED upVars
    /\ UNCHANGED restVars

\* asset, err := kb.karakeep.CreateAsset(ctx, filePath, mimeType), as its caller
\* sees it: an asset, or an error and a warning to the user; with ctx cancelled
\* the request cannot succeed.
HpmCreateAsset ==
    /\ hpc = "createAsset"
    /\ \/ /\ ~ctxCancelled
          /\ assets' = assets + 1
          /\ UNCHANGED <<hpmErr, warnings>>
       \/ /\ hpmErr' = "couldn't upload asset"
          /\ warnings' = warnings + 1
          /\ UNCHANGED assets
    /\ hpc' = "hpmCleanup"
    /\ UNCHANGED <<impl, allowlist, threads, chatId, threadId, msg, bookmarks, sleeps,
                   taggingStatus, fetchLog, replies, deleted, outcome>>
    /\ UNCHANGED procVars
    /\ UNCHANGED upVars
    /\ UNCHANGED restVars

\* A deferred function whose cleanup error always becomes the result.
HpmDeferCleanupMasks ==
    /\ hpc = "hpmCleanup"
    /\ \E ok \in BOOLEAN :
         /\ Cleanup("handlePhotoMessage", ok)
         /\ LET e == IF ~ok THEN "cleanup" ELSE hpmErr IN
            /\ hpmErr' = e
            /\ IF e # "nil"
               THEN End("parseFailed")
               ELSE /\ hpc' = "createBookmark"
                    /\ UNCHANGED outcome
    /\ UNCHANGED <<impl, allowlist, threads, chatId, threadId, msg, assets, bookmarks,
                   sleeps, taggingStatus, fetchLog, warnings, replies, deleted>>
    /\ UNCHANGED <<ppc, maxsize, validator, body, bytesWritten, path, contentType,
                   err, cause, tmpOpen, closes>>
    /\ UNCHANGED upVars
    /\ UNCHANGED restVars

\* handlePhotoMessage's deferred function: Cleanup(filePath); its error becomes
\* the result only when err is nil. The handler then returns on any error.
HpmDeferCleanup ==
    /\ hpc = "hpmCleanup"
    /\ \E ok \in BOOLEAN :
         /\ Cleanup("handlePhotoMessage", ok)
         /\ LET e == IF ~ok /\ hpmErr = "nil" THEN "cleanup" ELSE hpmErr IN
            /\ hpmErr' = e
            /\ IF e # "nil"
               THEN End("parseFailed")
               ELSE /\ hpc' = "createBookmark"
                    /\ UNCHANGED outcome
    /\ UNCHANGED <<impl, allowlist, threads, chatId, threadId, msg, assets, bookmarks,
                   sleeps, taggingStatus, fetchLog, warnings, replies, deleted>>
    /\ UNCHANGED <<ppc, maxsize, validator, body, bytesWritten, path, contentType,
                   err, cause, tmpOpen, closes>>
    /\ UNCHANGED upVars
    /\ UNCHANGED restVars

\* bookmark, err := kb.karakeep.CreateBookmark(ctx, b)
HandlerCreateBookmark ==
    /\ hpc = "createBookmark"
    /\ \/ /\ End("createBookmarkFailed")
          /\ UNCHANGED bookmarks
       \/ /\ bookmarks' = bookmarks + 1
          /\ hpc' = "fetch"
          /\ UNCHANGED outcome
    /\ UNCHANGED <<impl, allowlist, threads, chatId, threadId, msg, hpmErr, assets,
                   sleeps, taggingStatus, fetchLog, warnings, replies, deleted>>
    /\ UNCHANGED procVars
    /\ UNCHANGED upVars
    /\ UNCHANGED restVars

\* The statuses the bookmark endpoint answers a GET with.
FetchStatuses == {200, 404, 500}

\* Karakeep.RetrieveBookmarkById: an error for a transport error or a status
\* other than 200, else the snapshot, here its taggingStatus; *response.JSON200
\* panics on a nil JSON200.
RetrieveBookmarkById(transportErr, st, s) ==
    IF transportErr \/ st # 200 THEN "error"
    ELSE IF s = "undecoded" THEN "panic"
    ELSE s

\* The goroutine running the handler panics on a nil pointer dereference.
Panic ==
    /\ hpc' = "panicked"
    /\ outcome' = "panic"

\* A poll loop that treats a fetch error like a Pending answer, a few times.
HandlerFetchRetriesError ==
    /\ hpc = "fetch"
    /\ \E transportErr \in BOOLEAN, st \in FetchStatuses, s \in Answers :
         LET r == RetrieveBookmarkById(transportErr, st, s) IN
         /\ fetchLog' = Append(fetchLog, r)
         /\ IF r = "error"
            THEN /\ IF Len(fetchLog) < MaxPending
                    THEN hpc' = "sleep" /\ UNCHANGED outcome
                    ELSE End("fetchFailed")
                 /\ UNCHANGED taggingStatus
            ELSE /\ taggingStatus' = r
                 /\ hpc' = AfterFetch(r)
                 /\ outcome' = IF AfterFetch(r) = "done" THEN "taggingFailed" ELSE outcome
    /\ UNCHANGED <<impl, allowlist, threads, chatId, threadId, msg, hpmErr, assets,
                   bookmarks, sleeps, warnings, replies, deleted>>
    /\ UNCHANGED procVars
    /\ UNCHANGED upVars
    /\ UNCHANGED restVars

\* One turn of the poll loop up to the sleep: RetrieveBookmarkById, a return on
\* its error, then the branch on *bookmark.TaggingStatus, which panics on a
\* bookmark without taggingStatus.
HandlerFetch ==
    /\ hpc = "fetch"
    /\ \E transportErr \in BOOLEAN, st \in FetchStatuses, s \in Snapshots :
         LET r == RetrieveBookmarkById(transportErr, st, s) IN
         /\ fetchLog' = Append(fetchLog, r)
         /\ IF r = "error"
            THEN /\ End("fetchFailed")
                 /\ UNCHANGED taggingStatus
            ELSE IF r \in {"panic", "missing"}
            THEN /\ Panic
                 /\ UNCHANGED taggingStatus
            ELSE /\ taggingStatus' = r
                 /\ hpc' = AfterFetch(r)
                 /\ outcome' = IF AfterFetch(r) = "done" THEN "taggingFailed" ELSE outcome
    /\ UNCHANGED <<impl, allowlist, threads, chatId, threadId, msg, hpmErr, assets,
                   bookmarks, sleeps, warnings, replies, deleted>>
    /\ UNCHANGED procVars
    /\ UNCHANGED upVars
    /\ UNCHANGED restVars

\* A loop that sleeps twice for one Pending answer.
HandlerSleepDouble ==
    /\ hpc = "sleep"
    /\ sleeps' = sleeps + 2
    /\ hpc' = "fetch"
    /\ UNCHANGED <<impl, allowlist, threads, chatId, threadId, msg, hpmErr, assets,
                   bookmarks, taggingStatus, fetchLog, warnings, replies, deleted,
                   outcome>>
    /\ UNCHANGED procVars
    /\ UNCHANGED upVars
    /\ UNCHANGED restVars

\* time.Sleep(time.Duration(kb.waitInterval) * time.Second)
HandlerSleep ==
    /\ hpc = "sleep"
    /\ sleeps' = sleeps + 1
    /\ hpc' = "fetch"
    /\ UNCHANGED <<impl, allowlist, threads, chatId, threadId, msg, hpmErr, assets,
                   bookmarks, taggingStatus, fetchLog, warnings, replies, deleted,
                   outcome>>
    /\ UNCHANGED procVars
    /\ UNCHANGED upVars
    /\ UNCHANGED restVars

\* A handler that goes on to the deletion whether or not the send succeeded.
HandlerSendIgnoresError ==
    /\ hpc = "send"
    /\ replies' \in {replies, replies + 1}
    /\ hpc' = "delete"
    /\ UNCHANGED outcome
    /\ UNCHANGED <<impl, allowlist, threads, chatId, threadId, msg, hpmErr, assets,
                   bookmarks, sleeps, taggingStatus, fetchLog, warnings, deleted>>
    /\ UNCHANGED procVars
    /\ UNCHANGED upVars
    /\ UNCHANGED restVars

\* SendPhotoWithCaption or SendNewMessage with the hashtags appended.
HandlerSend ==
    /\ hpc = "send"
    /\ \/ /\ End("sendFailed")
          /\ UNCHANGED replies
       \/ /\ replies' = replies + 1
          /\ hpc' = "delete"
          /\ UNCHANGED outcome
    /\ UNCHANGED <<impl, allowlist, threads, chatId, threadId, msg, hpmErr, assets,
                   bookmarks, sleeps, taggingStatus, fetchLog, warnings, deleted>>
    /\ UNCHANGED procVars
    /\ UNCHANGED upVars
    /\ UNCHANGED restVars

\* kb.telegram.DeleteOriginalMessage(ctx, &msg)
HandlerDelete ==
    /\ hpc = "delete"
    /\ \/ /\ End("deleteFailed")
          /\ UNCHANGED deleted
       \/ /\ deleted' = TRUE
          /\ End("updated")
    /\ UNCHANGED <<impl, allowlist, threads, chatId, threadId, msg, hpmErr, assets,
                   bookmarks, sleeps, taggingStatus, fetchLog, warnings, replies>>
    /\ UNCHANGED procVars
    /\ UNCHANGED upVars
    /\ UNCHANGED restVars

\* The handler that uploads through kkprivate: CreateBookmark comes first, for
\* a text, a link or a captioned photo.
KkCreateBookmark ==
    /\ hpc = "kkCreateBookmark"
    /\ \/ /\ End("createBookmarkFailed")
          /\ UNCHANGED bookmarks
       \/ /\ bookmarks' = bookmarks + 1
          /\ hpc' = IF msg = "photo" THEN "kkUpload" ELSE "fetch"
          /\ UNCHANGED outcome
    /\ UNCHANGED <<impl, allowlist, threads, chatId, threadId, msg, hpmErr, assets,
                   sleeps, taggingStatus, fetchLog, warnings, replies, deleted>>
    /\ UNCHANGED procVars
    /\ UNCHANGED upVars
    /\ UNCHANGED restVars

\* asset, err := kb.uploadPhoto(ctx, msg.Photo): DownloadFile, then
\* Private.CreateAsset; on an error the handler returns, the bookmark staying.
KkUploadPhoto ==
    /\ hpc = "kkUpload"
    /\ \/ /\ End("uploadFailed")
          /\ UNCHANGED assets
       \/ /\ assets' = assets + 1
          /\ hpc' = "kkAttach"
          /\ UNCHANGED outcome
    /\ UNCHANGED <<impl, allowlist, threads, chatId, threadId, msg, hpmErr, bookmarks,
                   sleeps, taggingStatus, fetchLog, warnings, replies, deleted>>
    /\ UNCHANGED procVars
    /\ UNCHANGED upVars
    /\ UNCHANGED restVars

\* kb.karakeep.AttachAssetToBookmark(ctx, bookmark.Id, ...), then the poll loop.
KkAttach ==
    /\ hpc = "kkAttach"
    /\ \/ End("attachFailed")
       \/ /\ hpc' = "fetch"
          /\ UNCHANGED outcome
    /\ UNCHANGED <<impl, allowlist, threads, chatId, threadId, msg, hpmErr, assets,
                   bookmarks, sleeps, taggingStatus, fetchLog, warnings, replies,
                   deleted>>
    /\ UNCHANGED procVars
    /\ UNCHANGED upVars
    /\ UNCHANGED restVars

\* The handler that ends in processKaraKeepBookmark: CreateBookmark for a link
\* or a text message.
PkbCreateBookmark ==
    /\ hpc = "pkbCreateBookmark"
    /\ \/ /\ End("createBookmarkFailed")
          /\ UNCHANGED bookmarks
       \/ /\ bookmarks' = bookmarks + 1
          /\ hpc' = "pkbFetch"
          /\ UNCHANGED outcome
    /\ UNCHANGED <<impl, allowlist, threads, chatId, threadId, msg, hpmErr, assets,
                   sleeps, taggingStatus, fetchLog, warnings, replies, deleted>>
    /\ UNCHANGED procVars
    /\ UNCHANGED upVars
    /\ UNCHANGED restVars

\* processKaraKeepBookmark's poll loop: a fetch error returns, Success and
\* Failure both leave the loop for the reply.
PkbFetch ==
    /\ hpc = "pkbFetch"
    /\ \E transportErr \in BOOLEAN, st \in FetchStatuses, s \in Snapshots :
         LET r == RetrieveBookmarkById(transportErr, st, s) IN
         /\ fetchLog' = Append(fetchLog, r)
         /\ IF r = "error"
            THEN /\ End("fetchFailed")
                 /\ UNCHANGED taggingStatus
            ELSE IF r \in {"panic", "missing"}
            THEN /\ Panic
                 /\ UNCHANGED taggingStatus
            ELSE /\ taggingStatus' = r
                 /\ hpc' = PkbAfterFetch(r)
                 /\ UNCHANGED outcome
    /\ UNCHANGED <<impl, allowlist, threads, chatId, threadId, msg, hpmErr, assets,
                   bookmarks, sleeps, warnings, replies, deleted>>
    /\ UNCHANGED procVars
    /\ UNCHANGED upVars
    /\ UNCHANGED restVars

PkbSleep ==
    /\ hpc = "pkbSleep"
    /\ sleeps' = sleeps + 1
    /\ hpc' = "pkbFetch"
    /\ UNCHANGED <<impl, allowlist, threads, chatId, threadId, msg, hpmErr, assets,
                   bookmarks, taggingStatus, fetchLog, warnings, replies, deleted,
                   outcome>>
    /\ UNCHANGED procVars
    /\ UNCHANGED upVars
    /\ UNCHANGED restVars

\* processKaraKeepBookmark: the reply carries the hashtags, with a warning
\* prefixed when tagging failed; SendNewMessage's error is returned.
PkbSend ==
    /\ hpc = "pkbSend"
    /\ \/ /\ End("sendFailed")
          /\ UNCHANGED replies
       \/ /\ replies' = replies + 1
          /\ hpc' = "pkbDelete"
          /\ UNCHANGED outcome
    /\ UNCHANGED <<impl, allowlist, threads, chatId, threadId, msg, hpmErr, assets,
                   bookmarks, sleeps, taggingStatus, fetchLog, warnings, deleted>>
    /\ UNCHANGED procVars
    /\ UNCHANGED upVars
    /\ UNCHANGED restVars

\* processKaraKeepBookmark: DeleteOriginalMessage; its error is only logged.
PkbDelete ==
    /\ hpc = "pkbDelete"
    /\ deleted' \in BOOLEAN
    /\ End("processed")
    /\ UNCHANGED <<impl, allowlist, threads, chatId, threadId, msg, hpmErr, assets,
                   bookmarks, sleeps, taggingStatus, fetchLog, warnings, replies>>
    /\ UNCHANGED procVars
    /\ UNCHANGED upVars
    /\ UNCHANGED restVars

Next ==
    \/ HandlerReceive
    \/ HpmGetFileURL
    \/ ProcCreateTemp
    \/ ProcGet
    \/ ProcCopy
    \/ ProcCheckSize
    \/ ProcSniff
    \/ ProcDeferClose
    \/ ProcDeferCleanup
    \/ HandlerCtxCancel
    \/ HpmProcessed
    \/ HpmCreateAsset
    \/ HpmDeferCleanup
    \/ HandlerCreateBookmark
    \/ HandlerFetch
    \/ HandlerSleep
    \/ HandlerSend
    \/ HandlerDelete
    \/ KkCreateBookmark
    \/ KkUploadPhoto
    \/ KkAttach
    \/ PkbCreateBookmark
    \/ PkbFetch
    \/ PkbSleep
    \/ PkbSend
    \/ PkbDelete

Spec == Init /\ [][Next]_vars

\* The handler's goroutine keeps running: every call it makes returns and the
\* step after it is taken.
Steps ==
    \/ HandlerReceive
    \/ HpmGetFileURL
    \/ ProcCreateTemp
    \/ ProcGet
    \/ ProcCopy
    \/ ProcCheckSize
    \/ ProcSniff
    \/ ProcDeferClose
    \/ ProcDeferCleanup
    \/ HpmProcessed
    \/ HpmCreateAsset
    \/ HpmDeferCleanup
    \/ HandlerCreateBookmark
    \/ HandlerFetch
    \/ HandlerSleep
    \/ HandlerSend
    \/ HandlerDelete
    \/ KkCreateBookmark
    \/ KkUploadPhoto
    \/ KkAttach
    \/ PkbCreateBookmark
    \/ PkbFetch
    \/ PkbSleep
    \/ PkbSend
    \/ PkbDelete

SpecLive == Init /\ [][Next]_vars /\ WF_vars(Steps)

\* ----------------------------------------------------- Karakeep.CreateAsset

\* The statuses the asset endpoint answers with.
Statuses == {"200", "201", "500"}

\* A return sequence that looks at the HTTP error before the goroutine's.
OutcomeHttpFirst(goroutineErr, hErr, cancelled, st) ==
    IF hErr # "nil"
    THEN [kind |-> IF cancelled THEN "request cancelled" ELSE "failed to upload asset",
          detail |-> hErr]
    ELSE IF goroutineErr # "nil"
         THEN [kind |-> "producer", detail |-> goroutineErr]
         ELSE [kind |-> IF st # "200" THEN "status" ELSE "asset", detail |-> st]

\* CreateAsset's return sequence after the HTTP call: the value read from
\* errChan, then the HTTP error (a cancellation when ctx.Err() != nil), then the
\* status, then the asset.
Outcome(goroutineErr, hErr, cancelled, st) ==
    IF goroutineErr # "nil"
    THEN [kind |-> "producer", detail |-> goroutineErr]
    ELSE IF hErr # "nil"
         THEN [kind |-> IF cancelled THEN "request cancelled" ELSE "failed to upload asset",
               detail |-> hErr]
         ELSE [kind |-> IF st # "200" THEN "status" ELSE "asset", detail |-> st]

\* One CreateAsset(ctx, filePath, mimeType) call on a file of some chunks.
InitUpload ==
    /\ cpc = "start"
    /\ gpc = "idle"
    /\ goErr = "nil"
    /\ firstFailure = "none"
    /\ fileOpen = FALSE
    /\ chunksLeft \in 0..MaxChunks
    /\ copied = 0
    /\ pending = "none"
    /\ writing = FALSE
    /\ pipeWriterClosed = FALSE
    /\ pipeReaderClosed = FALSE
    /\ errChan = <<>>
    /\ sent = "nil"
    /\ errChanClosed = FALSE
    /\ http = "idle"
    /\ httpErr = "nil"
    /\ status = "none"
    /\ ctxCancelled = FALSE
    /\ cancelClean = FALSE
    /\ result = NoResult
    /\ maxsize = MaxMaxsize
    /\ ProcIdle
    /\ BotIdle
    /\ RestIdle

\* io.Pipe(), multipart.NewWriter, make(chan error, 1), go func(); then the call
\* of PostAssetsWithBodyWithResponse with pipeReader as the request body.
CaStart ==
    /\ cpc = "start"
    /\ cpc' = "http"
    /\ gpc' = "open"
    /\ http' = "sending"
    /\ UNCHANGED <<goErr, firstFailure, fileOpen, chunksLeft, copied, pending, writing,
                   pipeWriterClosed, pipeReaderClosed, errChan, sent, errChanClosed, httpErr,
                   status, ctxCancelled, cancelClean, result>>
    /\ UNCHANGED <<procVars, botVars>>
    /\ UNCHANGED restVars

\* The goroutine meets failure f: the first one is remembered.
Met(f) == firstFailure' = IF firstFailure = "none" THEN f ELSE firstFailure

\* A buffered pipe: a Write hands its bytes over and returns at once.
PipeWriteStartBuffered(bytes) ==
    /\ ~pipeReaderClosed
    /\ pending' = bytes
    /\ writing' = FALSE

\* A Write on the pipe: it offers its bytes, returns once the reader has taken
\* them, and fails with io.ErrClosedPipe when the read end is closed.
PipeWriteStart(bytes) ==
    /\ ~writing
    /\ ~pipeReaderClosed
    /\ pending = "none"
    /\ pending' = bytes
    /\ writing' = TRUE

PipeWriteDone ==
    /\ writing
    /\ pending = "none"
    /\ writing' = FALSE
    /\ UNCHANGED pending

PipeWriteFails ==
    /\ pipeReaderClosed
    /\ ~(writing /\ pending = "none")
    /\ writing' = FALSE
    /\ pending' = "none"

\* file, err := os.Open(filePath)
GoOpen ==
    /\ gpc = "open"
    /\ \/ /\ fileOpen' = TRUE
          /\ gpc' = "createPart"
          /\ UNCHANGED <<goErr, firstFailure>>
       \/ /\ goErr' = "failed to open file"
          /\ Met("failed to open file")
          /\ gpc' = "send"
          /\ UNCHANGED fileOpen
    /\ UNCHANGED <<cpc, chunksLeft, copied, pending, writing, pipeWriterClosed,
                   pipeReaderClosed, errChan, sent, errChanClosed, http, httpErr, status,
                   ctxCancelled, cancelClean, result>>
    /\ UNCHANGED <<procVars, botVars>>
    /\ UNCHANGED restVars

\* part, err := writer.CreatePart(...): the boundary and the part header go
\* through the pipe.
GoCreatePart ==
    /\ gpc = "createPart"
    /\ \/ /\ PipeWriteStart("header")
          /\ UNCHANGED <<gpc, goErr, firstFailure>>
       \/ /\ PipeWriteDone
          /\ gpc' = "copy"
          /\ UNCHANGED <<goErr, firstFailure>>
       \/ /\ PipeWriteFails
          /\ goErr' = "failed to create form part"
          /\ Met("failed to create form part")
          /\ gpc' = "fileClose"
    /\ UNCHANGED <<cpc, fileOpen, chunksLeft, copied, pipeWriterClosed, pipeReaderClosed,
                   errChan, sent, errChanClosed, http, httpErr, status, ctxCancelled,
                   cancelClean, result>>
    /\ UNCHANGED <<procVars, botVars>>
    /\ UNCHANGED restVars

\* io.Copy(part, file): a chunk at a time through the pipe, until the file ends,
\* a read of the file fails or a write to the pipe fails.
GoCopy ==
    /\ gpc = "copy"
    /\ \/ /\ chunksLeft > 0
          /\ PipeWriteStart("chunk")
          /\ UNCHANGED <<gpc, goErr, firstFailure, chunksLeft, copied>>
       \/ /\ PipeWriteDone
          /\ chunksLeft' = chunksLeft - 1
          /\ copied' = copied + 1
          /\ UNCHANGED <<gpc, goErr, firstFailure>>
       \/ /\ chunksLeft > 0
          /\ PipeWriteFails
          /\ goErr' = "failed to copy file to form"
          /\ Met("failed to copy file to form")
          /\ gpc' = "fileClose"
          /\ UNCHANGED <<chunksLeft, copied>>
       \/ /\ chunksLeft > 0
          /\ ~writing
          /\ goErr' = "failed to copy file to form"
          /\ Met("failed to copy file to form")
          /\ gpc' = "fileClose"
          /\ UNCHANGED <<chunksLeft, copied, pending, writing>>
       \/ /\ chunksLeft = 0
          /\ ~writing
          /\ gpc' = "fileClose"
          /\ UNCHANGED <<goErr, firstFailure, chunksLeft, copied, pending, writing>>
    /\ UNCHANGED <<cpc, fileOpen, pipeWriterClosed, pipeReaderClosed, errChan, sent,
                   errChanClosed, http, httpErr, status, ctxCancelled, cancelClean,
                   result>>
    /\ UNCHANGED <<procVars, botVars>>
    /\ UNCHANGED restVars

\* The inner function's deferred file.Close(): its error is assigned to that
\* function's local err after the result has been set, so it reaches nobody.
GoFileClose ==
    /\ gpc = "fileClose"
    /\ fileOpen' = FALSE
    /\ \/ UNCHANGED firstFailure
       \/ Met("failed to close file")
    /\ gpc' = "send"
    /\ UNCHANGED <<cpc, goErr, chunksLeft, copied, pending, writing, pipeWriterClosed,
                   pipeReaderClosed, errChan, sent, errChanClosed, http, httpErr, status,
                   ctxCancelled, cancelClean, result>>
    /\ UNCHANGED <<procVars, botVars>>
    /\ UNCHANGED restVars

\* A goroutine that reports its error a second time.
GoSendTwice ==
    /\ gpc = "send"
    /\ IF goErr # "nil"
       THEN /\ errChan' = errChan \o <<goErr, goErr>>
            /\ sent' = goErr
       ELSE UNCHANGED <<errChan, sent>>
    /\ gpc' = "writerClose"
    /\ UNCHANGED <<cpc, goErr, firstFailure, fileOpen, chunksLeft, copied, pending,
                   writing, pipeWriterClosed, pipeReaderClosed, errChanClosed, http,
                   httpErr, status, ctxCancelled, cancelClean, result>>
    /\ UNCHANGED <<procVars, botVars>>
    /\ UNCHANGED restVars

\* if err != nil { errChan <- err }: the goroutine's last statement, before its
\* deferred functions run.
GoSend ==
    /\ gpc = "send"
    /\ IF goErr # "nil"
       THEN /\ Len(errChan) < 1
            /\ errChan' = Append(errChan, goErr)
            /\ sent' = goErr
       ELSE UNCHANGED <<errChan, sent>>
    /\ gpc' = "writerClose"
    /\ UNCHANGED <<cpc, goErr, firstFailure, fileOpen, chunksLeft, copied, pending, writing,
                   pipeWriterClosed, pipeReaderClosed, errChanClosed, http, httpErr,
                   status, ctxCancelled, cancelClean, result>>
    /\ UNCHANGED <<procVars, botVars>>
    /\ UNCHANGED restVars

\* Deferred writer.Close(): the closing boundary goes through the pipe; its
\* error is stored in err when err is nil, after the send.
GoWriterClose ==
    /\ gpc = "writerClose"
    /\ \/ /\ PipeWriteStart("trailer")
          /\ UNCHANGED <<gpc, goErr, firstFailure>>
       \/ /\ PipeWriteDone
          /\ gpc' = "pipeClose"
          /\ UNCHANGED <<goErr, firstFailure>>
       \/ /\ PipeWriteFails
          /\ goErr' = IF goErr = "nil" THEN "failed to close multipart writer" ELSE goErr
          /\ Met("failed to close multipart writer")
          /\ gpc' = "pipeClose"
    /\ UNCHANGED <<cpc, fileOpen, chunksLeft, copied, pipeWriterClosed, pipeReaderClosed,
                   errChan, sent, errChanClosed, http, httpErr, status, ctxCancelled,
                   cancelClean, result>>
    /\ UNCHANGED <<procVars, botVars>>
    /\ UNCHANGED restVars

\* Deferred pipeWriter.Close(): the reader sees EOF; it returns nil.
GoPipeClose ==
    /\ gpc = "pipeClose"
    /\ pipeWriterClosed' = TRUE
    /\ gpc' = "chanClose"
    /\ UNCHANGED <<cpc, goErr, firstFailure, fileOpen, chunksLeft, copied, pending, writing,
                   pipeReaderClosed, errChan, sent, errChanClosed, http, httpErr, status,
                   ctxCancelled, cancelClean, result>>
    /\ UNCHANGED <<procVars, botVars>>
    /\ UNCHANGED restVars

\* Deferred close(errChan): the goroutine's last step.
GoChanClose ==
    /\ gpc = "chanClose"
    /\ errChanClosed' = TRUE
    /\ gpc' = "done"
    /\ UNCHANGED <<cpc, goErr, firstFailure, fileOpen, chunksLeft, copied, pending, writing,
                   pipeWriterClosed, pipeReaderClosed, errChan, sent, http, httpErr, status,
                   ctxCancelled, cancelClean, result>>
    /\ UNCHANGED <<procVars, botVars>>
    /\ UNCHANGED restVars

\* The HTTP client reads the request body from pipeReader.
HttpRead ==
    /\ http = "sending"
    /\ pending # "none"
    /\ pending' = "none"
    /\ UNCHANGED <<cpc, gpc, goErr, firstFailure, fileOpen, chunksLeft, copied, writing,
                   pipeWriterClosed, pipeReaderClosed, errChan, sent, errChanClosed, http,
                   httpErr, status, ctxCancelled, cancelClean, result>>
    /\ UNCHANGED <<procVars, botVars>>
    /\ UNCHANGED restVars

\* The HTTP client reads EOF: the request is complete.
HttpBodyEOF ==
    /\ http = "sending"
    /\ pipeWriterClosed
    /\ pending = "none"
    /\ http' = "waiting"
    /\ UNCHANGED <<cpc, gpc, goErr, firstFailure, fileOpen, chunksLeft, copied, pending, writing,
                   pipeWriterClosed, pipeReaderClosed, errChan, sent, errChanClosed, httpErr,
                   status, ctxCancelled, cancelClean, result>>
    /\ UNCHANGED <<procVars, botVars>>
    /\ UNCHANGED restVars

\* PostAssetsWithBodyWithResponse returns a response: after the whole request,
\* or early, the server answering before it has read the body. The client
\* closes the request body.
HttpRespond ==
    /\ http \in {"sending", "waiting"}
    /\ \E st \in Statuses : status' = st
    /\ pipeReaderClosed' = TRUE
    /\ http' = "returned"
    /\ cpc' = "recv"
    /\ UNCHANGED <<gpc, goErr, firstFailure, fileOpen, chunksLeft, copied, pending, writing,
                   pipeWriterClosed, errChan, sent, errChanClosed, httpErr, ctxCancelled,
                   cancelClean, result>>
    /\ UNCHANGED <<procVars, botVars>>
    /\ UNCHANGED restVars

\* PostAssetsWithBodyWithResponse returns an error: the context's when it is
\* cancelled, a transport error otherwise. The client closes the request body.
HttpFail ==
    /\ http \in {"sending", "waiting"}
    /\ httpErr' = IF ctxCancelled THEN "context canceled" ELSE "transport error"
    /\ pipeReaderClosed' = TRUE
    /\ http' = "returned"
    /\ cpc' = "recv"
    /\ UNCHANGED <<gpc, goErr, firstFailure, fileOpen, chunksLeft, copied, pending, writing,
                   pipeWriterClosed, errChan, sent, errChanClosed, status, ctxCancelled,
                   cancelClean, result>>
    /\ UNCHANGED <<procVars, botVars>>
    /\ UNCHANGED restVars

\* The caller's context is cancelled while the HTTP call is in flight.
CtxCancel ==
    /\ cpc = "http"
    /\ ~ctxCancelled
    /\ ctxCancelled' = TRUE
    /\ cancelClean' = (firstFailure = "none")
    /\ UNCHANGED <<cpc, gpc, goErr, firstFailure, fileOpen, chunksLeft, copied, pending, writing,
                   pipeWriterClosed, pipeReaderClosed, errChan, sent, errChanClosed, http,
                   httpErr, status, result>>
    /\ UNCHANGED <<procVars, botVars>>
    /\ UNCHANGED restVars

\* A CreateAsset that does not wait for the goroutine: it returns on the HTTP
\* result alone.
CaReceiveNoWait ==
    /\ cpc = "recv"
    /\ result' = Outcome("nil", httpErr, ctxCancelled, status)
    /\ cpc' = "returned"
    /\ UNCHANGED <<gpc, goErr, firstFailure, fileOpen, chunksLeft, copied, pending,
                   writing, pipeWriterClosed, pipeReaderClosed, errChan, sent,
                   errChanClosed, http, httpErr, status, ctxCancelled, cancelClean>>
    /\ UNCHANGED <<procVars, botVars>>
    /\ UNCHANGED restVars

\* goroutineErr := <-errChan, then the returns: a buffered error, or nil once
\* the channel is closed.
CaReceive ==
    /\ cpc = "recv"
    /\ errChan # <<>> \/ errChanClosed
    /\ LET goroutineErr == IF errChan # <<>> THEN Head(errChan) ELSE "nil" IN
       result' = Outcome(goroutineErr, httpErr, ctxCancelled, status)
    /\ errChan' = IF errChan # <<>> THEN Tail(errChan) ELSE errChan
    /\ cpc' = "returned"
    /\ UNCHANGED <<gpc, goErr, firstFailure, fileOpen, chunksLeft, copied, pending, writing,
                   pipeWriterClosed, pipeReaderClosed, sent, errChanClosed, http,
                   httpErr, status, ctxCancelled, cancelClean>>
    /\ UNCHANGED <<procVars, botVars>>
    /\ UNCHANGED restVars

NextUpload ==
    \/ CaStart
    \/ GoOpen
    \/ GoCreatePart
    \/ GoCopy
    \/ GoFileClose
    \/ GoSend
    \/ GoWriterClose
    \/ GoPipeClose
    \/ GoChanClose
    \/ HttpRead
    \/ HttpBodyEOF
    \/ HttpRespond
    \/ HttpFail
    \/ CtxCancel
    \/ CaReceive

SpecUpload == InitUpload /\ [][NextUpload]_vars

\* CreateAsset's start when PostAssetsWithBodyWithResponse fails before the
\* request reaches the transport (the request cannot be built, or a request
\* editor returns an error): the goroutine is running, the call has returned
\* its error, and pipeReader was neither read nor closed.
CaStartBuildFails ==
    /\ cpc = "start"
    /\ cpc' = "recv"
    /\ gpc' = "open"
    /\ http' = "returned"
    /\ httpErr' = "request error"
    /\ UNCHANGED <<goErr, firstFailure, fileOpen, chunksLeft, copied, pending, writing,
                   pipeWriterClosed, pipeReaderClosed, errChan, sent, errChanClosed,
                   status, ctxCancelled, cancelClean, result>>
    /\ UNCHANGED <<procVars, botVars>>
    /\ UNCHANGED restVars

NextUploadBuild ==
    \/ CaStart
    \/ CaStartBuildFails
    \/ GoOpen
    \/ GoCreatePart
    \/ GoCopy
    \/ GoFileClose
    \/ GoSend
    \/ GoWriterClose
    \/ GoPipeClose
    \/ GoChanClose
    \/ HttpRead
    \/ HttpBodyEOF
    \/ HttpRespond
    \/ HttpFail
    \/ CtxCancel
    \/ CaReceive

\* Every step that can be taken is eventually taken: the goroutine, the HTTP
\* call and CreateAsset itself all keep running.
SpecUploadBuild == InitUpload /\ [][NextUploadBuild]_vars /\ WF_vars(NextUploadBuild)

\* ------------------------------------- one photo ingestion, upload in detail

\* handlePhotoMessage from its call of Process(fileURL, nil) on, for an allowed
\* photo message, with CreateAsset run step by step.
InitIngest ==
    /\ maxsize = 1
    /\ validator = "nil"
    /\ ProcEntry
    /\ impl = "fileprocessor"
    /\ allowlist = {}
    /\ threads = {}
    /\ chatId \in ChatIds
    /\ threadId \in ThreadIds
    /\ msg = "photo"
    /\ hpc = "process"
    /\ hpmErr = "nil"
    /\ assets = 0
    /\ bookmarks = 0
    /\ sleeps = 0
    /\ taggingStatus = "none"
    /\ fetchLog = <<>>
    /\ warnings = 0
    /\ replies = 0
    /\ deleted = FALSE
    /\ outcome = "none"
    /\ UpIdle
    /\ CcIdle
    /\ BmIdle
    /\ bootpc = "running"
    /\ config \in [Allowlist : {<<>>}, Maxsize : {1}, Timeout : {1},
                    Mimetypes : {<<>>, <<"image/png">>}]

\* The call kb.karakeep.CreateAsset(ctx, filePath, mimeType) on the file Process
\* left: an empty file has no chunk to copy.
HpmCreateAssetCall ==
    /\ hpc = "createAsset"
    /\ cpc = "idle"
    /\ cpc' = "start"
    /\ chunksLeft' \in IF bytesWritten = 0 THEN {0} ELSE 1..MaxChunks
    /\ UNCHANGED <<gpc, goErr, firstFailure, fileOpen, copied, pending, writing,
                   pipeWriterClosed, pipeReaderClosed, errChan, sent, errChanClosed, http,
                   httpErr, status, ctxCancelled, cancelClean, result>>
    /\ UNCHANGED <<procVars, botVars>>
    /\ UNCHANGED restVars

\* asset, err := ... as handlePhotoMessage receives it: an asset, or an error
\* and a warning to the user; the deferred Cleanup follows.
HpmCreateAssetReturn ==
    /\ hpc = "createAsset"
    /\ cpc = "returned"
    /\ IF result.kind = "asset"
       THEN /\ assets' = assets + 1
            /\ UNCHANGED <<hpmErr, warnings>>
       ELSE /\ hpmErr' = "couldn't upload asset"
            /\ warnings' = warnings + 1
            /\ UNCHANGED assets
    /\ hpc' = "hpmCleanup"
    /\ UNCHANGED <<impl, allowlist, threads, chatId, threadId, msg, bookmarks, sleeps,
                   taggingStatus, fetchLog, replies, deleted, outcome>>
    /\ UNCHANGED procVars
    /\ UNCHANGED upVars
    /\ UNCHANGED restVars

NextIngest ==
    \/ ProcCreateTemp
    \/ ProcGet
    \/ ProcCopy
    \/ ProcCheckSize
    \/ ProcSniff
    \/ ProcDeferClose
    \/ ProcDeferCleanup
    \/ HpmProcessed
    \/ HpmCreateAssetCall
    \/ CaStart
    \/ GoOpen
    \/ GoCreatePart
    \/ GoCopy
    \/ GoFileClose
    \/ GoSend
    \/ GoWriterClose
    \/ GoPipeClose
    \/ GoChanClose
    \/ HttpRead
    \/ HttpBodyEOF
    \/ HttpRespond
    \/ HttpFail
    \/ CtxCancel
    \/ CaReceive
    \/ HpmCreateAssetReturn
    \/ HpmDeferCleanup

SpecIngest == InitIngest /\ [][NextIngest]_vars

\* ------------------------------- photo messages handled at the same time

\* A name os.CreateTemp would overwrite if it opened without O_EXCL.
CreateTempNoExcl(dir) == Names

\* os.CreateTemp(p.tempdir, "karakeepbot-*.tmp"): a random suffix, opened with
\* O_CREATE|O_EXCL and drawn again while the name exists, so the name returned
\* is one no file in the directory has.
CreateTempNames(dir) == Names \ dir

\* Several photo messages arrive; each handlePhotoMessage runs on its own
\* goroutine against the one Processor and its temp directory.
InitConcurrent ==
    /\ tempdir = {}
    /\ ing = [i \in Ingestions |->
                 [pc |-> "createTemp", path |-> 0, overlapped |-> FALSE]]
    /\ maxsize = MaxMaxsize
    /\ ProcIdle
    /\ BotIdle
    /\ UpIdle
    /\ BmIdle
    /\ CfgIdle

\* The ingestion has a temp file it has not yet released.
InUse(i) == ing[i].pc \in {"writing", "validating", "uploading", "cleanup"}

\* p.Cleanup(path) -> os.Remove(path): the file of that name goes, or the
\* removal fails and the file stays.
CcRemove(i) ==
    \/ tempdir' = tempdir \ {ing[i].path}
    \/ UNCHANGED tempdir

\* tmpFile, err := os.CreateTemp(...): a fresh file, or an error and Process
\* returns before its defer is registered.
CcCreateTemp ==
    \E i \in Ingestions :
        /\ ing[i].pc = "createTemp"
        /\ \/ \E n \in CreateTempNames(tempdir) :
                /\ tempdir' = tempdir \cup {n}
                /\ ing' = [ing EXCEPT ![i] =
                             [pc |-> "writing", path |-> n,
                              overlapped |-> \E j \in Ingestions \ {i} : InUse(j)]]
           \/ /\ ing' = [ing EXCEPT ![i] =
                           [pc |-> "failed", path |-> 0, overlapped |-> FALSE]]
              /\ UNCHANGED tempdir
        /\ UNCHANGED <<procVars, botVars, upVars, bmVars, cfgVars>>

\* client.Get, io.Copy and the size check: on to the content check, or an error
\* and the deferred Cleanup(tmpFile.Name()).
CcWrite ==
    \E i \in Ingestions :
        /\ ing[i].pc = "writing"
        /\ \/ /\ ing' = [ing EXCEPT ![i].pc = "validating"]
              /\ UNCHANGED tempdir
           \/ /\ ing' = [ing EXCEPT ![i].pc = "failed"]
              /\ CcRemove(i)
        /\ UNCHANGED <<procVars, botVars, upVars, bmVars, cfgVars>>

\* The validator or the content sniffing reads the file: Process returns the
\* path, or an error and the deferred Cleanup(tmpFile.Name()).
CcValidate ==
    \E i \in Ingestions :
        /\ ing[i].pc = "validating"
        /\ \/ /\ ing' = [ing EXCEPT ![i].pc = "uploading"]
              /\ UNCHANGED tempdir
           \/ /\ ing' = [ing EXCEPT ![i].pc = "failed"]
              /\ CcRemove(i)
        /\ UNCHANGED <<procVars, botVars, upVars, bmVars, cfgVars>>

\* kb.karakeep.CreateAsset(ctx, filePath, mimeType) returns, with an asset or
\* with an error; the deferred Cleanup is next either way.
CcUpload ==
    \E i \in Ingestions :
        /\ ing[i].pc = "uploading"
        /\ ing' = [ing EXCEPT ![i].pc = "cleanup"]
        /\ UNCHANGED tempdir
        /\ UNCHANGED <<procVars, botVars, upVars, bmVars, cfgVars>>

\* handlePhotoMessage's deferred kb.fileProcessor.Cleanup(filePath).
CcCleanup ==
    \E i \in Ingestions :
        /\ ing[i].pc = "cleanup"
        /\ ing' = [ing EXCEPT ![i].pc = "done"]
        /\ CcRemove(i)
        /\ UNCHANGED <<procVars, botVars, upVars, bmVars, cfgVars>>

\* handlePhotoMessage has returned, with nil ("done") or with Process's error
\* ("failed"); the goroutine takes the next photo message.
CcNextMessage ==
    \E i \in Ingestions :
        /\ ing[i].pc \in {"done", "failed"}
        /\ ing' = [ing EXCEPT ![i] =
                     [pc |-> "createTemp", path |-> 0, overlapped |-> FALSE]]
        /\ UNCHANGED tempdir
        /\ UNCHANGED <<procVars, botVars, upVars, bmVars, cfgVars>>

NextConcurrent ==
    \/ CcCreateTemp
    \/ CcWrite
    \/ CcValidate
    \/ CcUpload
    \/ CcCleanup
    \/ CcNextMessage

SpecConcurrent == InitConcurrent /\ [][NextConcurrent]_vars

\* --------------------------------------- ImageValidator called on a file

\* TestImageValidator: a temp file was created for some content; the content is
\* written, the file reopened and handed to ImageValidator, then closed and
\* removed.
InitValidator ==
    /\ ppc = "testWrite"
    /\ maxsize = MaxMaxsize
    /\ validator = "ImageValidator"
    /\ body \in [kind : FileKinds, len : 0..MaxMaxsize, status : {0}]
    /\ bytesWritten = 0
    /\ path = "tmp"
    /\ contentType = ""
    /\ err = "nil"
    /\ cause = "none"
    /\ onDisk = TRUE
    /\ tmpOpen = TRUE
    /\ closes = 0
    /\ removes = <<>>
    /\ removed = 0
    /\ BotIdle
    /\ UpIdle
    /\ RestIdle

\* tmpFile.Write(tt.fileContent), tmpFile.Close(), os.Open(tmpFile.Name()).
TvWrite ==
    /\ ppc = "testWrite"
    /\ bytesWritten' = body.len
    /\ closes' = closes + 1
    /\ ppc' = "testValidate"
    /\ UNCHANGED <<maxsize, validator, body, path, contentType, err, cause, onDisk,
                   tmpOpen, removes, removed>>
    /\ UNCHANGED <<botVars, upVars>>
    /\ UNCHANGED restVars

\* contentType, err := ImageValidator(fileToValidate): the seek or the read
\* fails, or the leading bytes decide.
TvValidate ==
    /\ ppc = "testValidate"
    /\ \/ /\ contentType' = ""
          /\ err' = "io"
          /\ cause' = "validatorIO"
       \/ /\ contentType' = ImageValidator(body.kind, bytesWritten)[1]
          /\ err' = ImageValidator(body.kind, bytesWritten)[2]
          /\ UNCHANGED cause
    /\ ppc' = "testDone"
    /\ UNCHANGED <<maxsize, validator, body, bytesWritten, path, onDisk, tmpOpen,
                   closes, removes, removed>>
    /\ UNCHANGED <<botVars, upVars>>
    /\ UNCHANGED restVars

\* The test's deferred fileToValidate.Close() and os.Remove(tmpFile.Name()).
TvRemove ==
    /\ ppc = "testDone"
    /\ tmpOpen' = FALSE
    /\ closes' = closes + 1
    /\ onDisk' = FALSE
    /\ removes' = Append(removes, "test")
    /\ removed' = removed + 1
    /\ ppc' = "testEnd"
    /\ UNCHANGED <<maxsize, validator, body, bytesWritten, path, contentType, err,
                   cause>>
    /\ UNCHANGED <<botVars, upVars>>
    /\ UNCHANGED restVars

NextValidator ==
    \/ TvWrite
    \/ TvValidate
    \/ TvRemove

SpecValidator == InitValidator /\ [][NextValidator]_vars

\* ------------------ photo messages in the handler that names files by ID

\* Photo messages arrive whose best photos have these file IDs; each is handled
\* on its own goroutine, and its file is kb.tempDir/<BestPhotoFileID>.jpg.
InitLegacy ==
    /\ tempdir = {}
    /\ ing \in [Ingestions -> [pc : {"download"}, path : Names, overlapped : {FALSE}]]
    /\ maxsize = MaxMaxsize
    /\ ProcIdle
    /\ BotIdle
    /\ UpIdle
    /\ BmIdle
    /\ CfgIdle

\* Telegram.DownloadFile up to os.Create(destinationPath): GetFile, the GET and
\* MkdirAll, any of which may fail and end the handler; os.Create makes the
\* file, or truncates the one that is there.
LgCreate ==
    \E i \in Ingestions :
        /\ ing[i].pc = "download"
        /\ \/ /\ ing' = [ing EXCEPT ![i].pc = "failed"]
              /\ UNCHANGED tempdir
           \/ /\ ing' = [ing EXCEPT ![i].pc = "writing",
                                    ![i].overlapped = \E j \in Ingestions \ {i} : InUse(j)]
              /\ tempdir' = tempdir \cup {ing[i].path}
        /\ UNCHANGED <<procVars, botVars, upVars, bmVars, cfgVars>>

\* io.Copy(out, resp.Body): the file is complete, or the copy fails and the
\* handler returns, its removal not yet deferred.
LgCopy ==
    \E i \in Ingestions :
        /\ ing[i].pc = "writing"
        /\ \/ ing' = [ing EXCEPT ![i].pc = "uploading"]
           \/ ing' = [ing EXCEPT ![i].pc = "failed"]
        /\ UNCHANGED tempdir
        /\ UNCHANGED <<procVars, botVars, upVars, bmVars, cfgVars>>

\* kb.karakeep.UploadImageToKaraKeep(ctx, localTempPath) and what follows it,
\* up to the handler's return.
LgUpload ==
    \E i \in Ingestions :
        /\ ing[i].pc = "uploading"
        /\ ing' = [ing EXCEPT ![i].pc = "cleanup"]
        /\ UNCHANGED tempdir
        /\ UNCHANGED <<procVars, botVars, upVars, bmVars, cfgVars>>

\* The deferred os.Remove(localTempPath): the file of that name goes; a failure
\* is only logged.
LgRemove ==
    \E i \in Ingestions :
        /\ ing[i].pc = "cleanup"
        /\ ing' = [ing EXCEPT ![i].pc = "done"]
        /\ CcRemove(i)
        /\ UNCHANGED <<procVars, botVars, upVars, bmVars, cfgVars>>

NextLegacy ==
    \/ LgCreate
    \/ LgCopy
    \/ LgUpload
    \/ LgRemove

SpecLegacy == InitLegacy /\ [][NextLegacy]_vars

\* --------------------------------------------------------- NewImageBookmark

\* A photo list of a message: each photo has a FileSize and Width * Height.
PhotoSizes == [size : 0..MaxFileSize, pixels : 1..MaxPixels]

PhotoLists == UNION {[1..n -> PhotoSizes] : n \in 0..MaxPhotos}

\* for i, p := range photos { if p.FileSize > 0 { initialIndex = i; break } }
RECURSIVE InitialIndex(_, _)
InitialIndex(ps, i) ==
    IF i > Len(ps) THEN 0
    ELSE IF ps[i].size > 0 THEN i
    ELSE InitialIndex(ps, i + 1)

\* for i := initialIndex + 1; ...: if p.FileSize > maxSize, take it.
RECURSIVE LargestFileSize(_, _, _)
LargestFileSize(ps, i, sel) ==
    IF i > Len(ps) THEN sel
    ELSE IF ps[i].size > ps[sel].size
         THEN LargestFileSize(ps, i + 1, i)
         ELSE LargestFileSize(ps, i + 1, sel)

\* for _, p := range photos { if pixels > maxPixels, take it }, from photos[0].
RECURSIVE MostPixels(_, _, _)
MostPixels(ps, i, sel) ==
    IF i > Len(ps) THEN sel
    ELSE IF ps[i].pixels > ps[sel].pixels
         THEN MostPixels(ps, i + 1, i)
         ELSE MostPixels(ps, i + 1, sel)

\* The branch taken when no photo has a positive FileSize.
Fallback(ps) == MostPixels(ps, 1, 1)

\* NewImageBookmark's choice of BestPhotoFileID, as the index of the photo.
BestPhoto(ps) ==
    IF Len(ps) = 0 THEN 0
    ELSE IF InitialIndex(ps, 1) # 0
         THEN LargestFileSize(ps, InitialIndex(ps, 1) + 1, InitialIndex(ps, 1))
         ELSE Fallback(ps)

\* A message's photo list is about to be handed to NewImageBookmark.
InitBookmark ==
    /\ bpc = "call"
    /\ photos \in PhotoLists
    /\ best = 0
    /\ maxsize = MaxMaxsize
    /\ ProcIdle
    /\ BotIdle
    /\ UpIdle
    /\ CcIdle
    /\ CfgIdle

\* bookmark := NewImageBookmark(photos, caption)
NibNew ==
    /\ bpc = "call"
    /\ best' = BestPhoto(photos)
    /\ bpc' = "returned"
    /\ UNCHANGED photos
    /\ UNCHANGED <<procVars, botVars, upVars, ccVars, cfgVars>>

NextBookmark ==
    \/ NibNew

SpecBookmark == InitBookmark /\ [][NextBookmark]_vars

\* ------------------------------------------------------------------ start-up

\* What a fileprocessor.mimetypes entry can be.
MimeEntries == {"", "image/png", "text/plain"}

MimetypeLists == UNION {[1..n -> MimeEntries] : n \in 0..MaxMimetypes}

\* TelegramConfig.Validate, the token being well-formed: the placeholder
\* allowlist [-1] is refused.
TelegramValidate(c) == ~(Len(c.Allowlist) = 1 /\ c.Allowlist[1] = -1)

\* FileProcessorConfig.Validate: positive maxsize and timeout, no empty and no
\* duplicate mimetypes entry.
FileProcessorValidate(c) ==
    /\ c.Maxsize > 0
    /\ c.Timeout > 0
    /\ \A i \in 1..Len(c.Mimetypes) : c.Mimetypes[i] # ""
    /\ \A i, j \in 1..Len(c.Mimetypes) : i # j => c.Mimetypes[i] # c.Mimetypes[j]

\* validateConfig: Telegram, Karakeep and Logging are validated (the last two
\* taken as valid here); FileProcessor is not.
validateConfig(c) == TelegramValidate(c)

\* The keys of fileValidators in karakeepbot.New.
SupportedMimetypes == {"image/jpeg", "image/png", "image/webp"}

\* The defaults overridden by a file and by environment variables.
InitConfig ==
    /\ bootpc = "load"
    /\ config \in [Allowlist : {<<-1>>, <<>>, <<1>>}, Maxsize : -1..1, Timeout : -1..1,
                   Mimetypes : MimetypeLists]
    /\ maxsize = 0
    /\ ProcIdle
    /\ BotIdle
    /\ UpIdle
    /\ CcIdle
    /\ BmIdle

\* config.New: log.Fatalf when validateConfig fails, the configuration otherwise.
CfgNew ==
    /\ bootpc = "load"
    /\ bootpc' = IF validateConfig(config) THEN "loaded" ELSE "fatal"
    /\ UNCHANGED config
    /\ UNCHANGED <<procVars, botVars, upVars, ccVars, bmVars>>

\* fileprocessor.New(&config.FileProcessor): MkdirAll fails, or a Processor
\* with the configured maxsize and timeout.
CfgProcessor ==
    /\ bootpc = "loaded"
    /\ \/ /\ bootpc' = "fatal"
          /\ UNCHANGED maxsize
       \/ /\ bootpc' = "processor"
          /\ maxsize' = config.Maxsize
    /\ UNCHANGED config
    /\ UNCHANGED <<ppc, validator, body, bytesWritten, path, contentType, err, cause,
                   onDisk, tmpOpen, closes, removes, removed>>
    /\ UNCHANGED <<botVars, upVars, ccVars, bmVars>>

\* karakeepbot.New: logger.Fatal on a configured MIME type without a validator.
CfgSupported ==
    /\ bootpc = "processor"
    /\ bootpc' = IF \A i \in 1..Len(config.Mimetypes) :
                       config.Mimetypes[i] \in SupportedMimetypes
                 THEN "running" ELSE "fatal"
    /\ UNCHANGED config
    /\ UNCHANGED <<procVars, botVars, upVars, ccVars, bmVars>>

NextConfig ==
    \/ CfgNew
    \/ CfgProcessor
    \/ CfgSupported

SpecConfig == InitConfig /\ [][NextConfig]_vars

\* ------------------------------------------------------------ properties

ProcReturned == ppc = "returned"

\* Process got as far as creating the temp file.
TempCreated == ppc \notin {"idle", "createTemp"} /\ cause # "createTemp"

\* C1, as stated: whenever Process returns a non-nil error, the temp file it
\* created no longer exists on disk at the moment Process returns.
C1_ErrorLeavesNoFile ==
    (ProcReturned /\ err # "nil") => ~onDisk

\* C1, amended: whenever Process returns a non-nil error after creating the
\* temp file, it has closed the handle and then called Cleanup exactly once
\* before returning, and the file is still on disk only if that os.Remove
\* failed; when CreateTemp failed there is no file and no removal.
C1_ErrorReturnCleansUp ==
    (ProcReturned /\ err # "nil") =>
        IF cause = "createTemp"
        THEN ~onDisk /\ removes = <<>> /\ closes = 0
        ELSE /\ closes = 1
             /\ ~tmpOpen
             /\ removes = <<"Process">>
             /\ (onDisk <=> removed = 0)

\* C1 witness: download and sniff succeeded, only the handle close failed, and
\* Process returned the error with the file removed.
C1_Witness ==
    ProcReturned /\ cause = "close" /\ err = "ErrProcessingFailed" /\ ~onDisk /\ removed = 1

\* C4, as stated: whenever Process returns a non-nil error the returned path is
\* the empty string, also when the only failure is closing the temp file handle.
C4_ErrorReturnsEmptyPath ==
    (ProcReturned /\ err # "nil") => path = ""

\* C3: for a 200 response whose body is longer than maxsize and is copied
\* without an I/O error, Process returns a validation-category error: not a
\* download or processing error, and no path to a truncated file; the file
\* never holds more than maxsize + 1 bytes.
C3_OversizeIsValidationFailure ==
    /\ bytesWritten <= maxsize + 1
    /\ (ProcReturned /\ body.len > maxsize /\ cause \notin {"status", "bodyRead", "copy"}) =>
          /\ err = "ErrValidationFailed"
          /\ cause = "exceeds"
          /\ path = ""

\* C3 witness: a body of maxsize + 2 bytes was cut at maxsize + 1 and rejected.
C3_Witness ==
    /\ ProcReturned
    /\ body.len = maxsize + 2
    /\ bytesWritten = maxsize + 1
    /\ err = "ErrValidationFailed"

\* The handler ran handlePhotoMessage to its end.
PhotoDone == hpc = "done" /\ msg = "photo" /\ impl = "fileprocessor"

\* C2, as stated: over all exit paths of a photo ingestion the temp file is
\* removed exactly once, never twice and never left behind.
C2_RemovedExactlyOnce ==
    (PhotoDone /\ TempCreated) => (removed = 1 /\ ~onDisk)

\* C2, amended: over all exit paths of a photo ingestion, once the temp file
\* exists Cleanup is called exactly once, by Process when Process fails and
\* otherwise by handlePhotoMessage's deferred function whether CreateAsset
\* succeeds or fails; it is never called twice, and the file is left behind
\* only when that single os.Remove fails.
C2_ReleasedOnce ==
    /\ Len(removes) <= 1
    /\ (hpc \in {"createBookmark", "fetch", "sleep", "send", "delete"} /\ msg = "photo"
            /\ impl = "fileprocessor")
          => removes = <<"handlePhotoMessage">>
    /\ (PhotoDone /\ TempCreated) =>
          /\ removes = <<IF err # "nil" THEN "Process" ELSE "handlePhotoMessage">>
          /\ (onDisk <=> removed = 0)

\* C2 witness: Process succeeded, CreateAsset failed, and the deferred cleanup
\* removed the file.
C2_Witness ==
    /\ PhotoDone
    /\ hpmErr = "couldn't upload asset"
    /\ removes = <<"handlePhotoMessage">>
    /\ ~onDisk

\* C9: in the poll loop a Success or Failure snapshot is the last fetch: every
\* earlier answer was Pending, and with a terminal snapshot held the handler is
\* never again at a fetch or a sleep.
C9_TerminalSnapshotEndsPolling ==
    /\ \A i \in 1..Len(fetchLog) :
          fetchLog[i] \in {"success", "failure"} => i = Len(fetchLog)
    /\ taggingStatus \in {"success", "failure"} =>
          hpc \notin {"fetch", "sleep", "pkbFetch", "pkbSleep"}

\* C9 witness: a Pending answer, then a Failure, and the handler has ended.
C9_Witness ==
    /\ impl = "fileprocessor"
    /\ fetchLog = <<"pending", "failure">>
    /\ sleeps = 1
    /\ hpc = "done"

\* C10, as stated: when a poll observes taggingStatus Failure the handler stops
\* processing the message: no tagged reply is sent and the original message is
\* not deleted.
C10_FailureSendsNothing ==
    taggingStatus = "failure" => (replies = 0 /\ ~deleted)

\* CreateAsset has returned to its caller.
CaReturned == cpc = "returned"

\* C5, as stated: when CreateAsset returns, with a result or with an error, the
\* producer goroutine has finished every one of its steps (local file closed,
\* multipart writer closed, pipe writer closed, completion channel closed).
C5_ProducerJoined ==
    CaReturned => (gpc = "done" /\ ~fileOpen /\ pipeWriterClosed /\ errChanClosed)

\* C6: if the producer goroutine reports an error and the HTTP call also
\* returns an error, CreateAsset returns the producer's error, whether or not
\* the context is cancelled.
C6_ProducerErrorWins ==
    (CaReturned /\ sent # "nil" /\ httpErr # "nil")
        => result = [kind |-> "producer", detail |-> sent]

\* C6 witness: the copy failed on the closed pipe, the HTTP call failed too, and
\* CreateAsset returned the copy error.
C6_Witness ==
    /\ CaReturned
    /\ httpErr = "transport error"
    /\ sent = "failed to copy file to form"
    /\ result = [kind |-> "producer", detail |-> "failed to copy file to form"]

\* C7, as stated: if the context is cancelled while the upload is in flight and
\* the HTTP call ends with the context's error, CreateAsset returns the
\* cancellation error in every interleaving, never a producer pipe error.
C7_CancellationReported ==
    (CaReturned /\ httpErr = "context canceled" /\ cancelClean)
        => result.kind = "request cancelled"

\* C8, as stated: the error CreateAsset returns is the first failure the
\* producer met, the trailer close and the local file close included.
C8_FirstProducerFailureReturned ==
    (CaReturned /\ firstFailure # "none")
        => result = [kind |-> "producer", detail |-> firstFailure]

\* ---------------------------------------------- Process: categories, content

\* The leading bytes are a whole allowed signature: the 8-byte PNG signature,
\* the 3-byte JPEG signature, or RIFF at 0 with WEBP at 8.
MatchesSignature(kind, n) ==
    \/ kind = "png" /\ n >= 8
    \/ kind = "jpeg" /\ n >= 3
    \/ kind = "webp" /\ n >= 12

\* The content types the image validator lets through.
AllowedTypes == {"image/jpeg", "image/png", "image/webp"}

\* The response was a 200 with a body within the ceiling.
WithinCeiling == body # NoBody /\ body.status = 200 /\ body.len <= maxsize

\* C14, as stated: a timeout or transport error at any point of the fetch, the
\* copy of the response body into the temp file included, makes Process return
\* a download-category error.
C14_FetchFailureIsDownloadFailure ==
    (ProcReturned /\ cause \in {"get", "bodyRead"}) => err = "ErrDownloadFailed"

\* C16: for every response whose status is not 2xx Process returns a
\* download-category error and no path, and never starts copying the body.
C16_Non2xxIsDownloadFailure ==
    (body # NoBody /\ (body.status < 200 \/ body.status > 299)) =>
        /\ ppc \notin {"copy", "size", "detect"}
        /\ bytesWritten = 0
        /\ ProcReturned => (err = "ErrDownloadFailed" /\ cause = "status" /\ path = "")

\* C16 witness: a 404 came back as a download failure.
C16_Witness ==
    ProcReturned /\ body.status = 404 /\ err = "ErrDownloadFailed" /\ path = ""

\* C17: a payload within the ceiling whose leading bytes match no allowed
\* signature, copied without an I/O error: with a validator Process fails in
\* the validation category; with a nil validator it rejects nothing, and unless
\* the sniff read or the close fails it succeeds with the sniffed content type
\* (empty when the seek failed).
C17_NoSignatureRejectedOnlyByValidator ==
    (ProcReturned /\ WithinCeiling /\ ~MatchesSignature(body.kind, body.len)
                  /\ cause \notin {"bodyRead", "copy"}) =>
        IF validator # "nil"
        THEN err = "ErrValidationFailed" /\ path = ""
        ELSE /\ err # "ErrValidationFailed"
             /\ cause \in {"none", "read", "close"}
             /\ err = "nil" =>
                   /\ path # ""
                   /\ contentType \in {DetectContentType(body.kind, body.len), ""}

\* C17 witness: a text payload within the ceiling was rejected by the validator.
C17_Witness ==
    /\ ProcReturned
    /\ WithinCeiling
    /\ body.kind = "text"
    /\ validator = "ImageValidator"
    /\ cause = "validator"
    /\ err = "ErrValidationFailed"

\* C18: for a 200 payload of at most maxsize bytes whose leading bytes match an
\* allowed signature, Process with ImageValidator, no local I/O failing, succeeds
\* and returns a non-empty path of an existing file and an allowed content type.
C18_AllowedImageSucceeds ==
    (ProcReturned /\ validator = "ImageValidator" /\ WithinCeiling
                  /\ MatchesSignature(body.kind, body.len)
                  /\ cause \notin {"bodyRead", "copy", "validatorIO", "close"}) =>
        /\ err = "nil"
        /\ path # ""
        /\ onDisk
        /\ bytesWritten = body.len
        /\ contentType \in AllowedTypes

\* C18 witness: a WEBP payload of exactly maxsize bytes was accepted.
C18_Witness ==
    /\ ProcReturned
    /\ validator = "ImageValidator"
    /\ body.status = 200
    /\ body.kind = "webp"
    /\ body.len = maxsize
    /\ err = "nil"
    /\ contentType = "image/webp"
    /\ onDisk

\* C19, as stated: an I/O error raised while the validator seeks or reads the
\* temp file is not reported in the validation category.
C19_ValidatorIOIsNotValidation ==
    (ProcReturned /\ cause = "validatorIO") => err # "ErrValidationFailed"

\* C20: on every path through Process on which the temp file was created its
\* handle is closed exactly once, and on error paths the close happens before
\* the removal of the file.
C20_HandleClosedOnce ==
    /\ closes <= 1
    /\ tmpOpen => closes = 0
    /\ (ppc \in {"returned", "cleaned"} /\ TempCreated) => (closes = 1 /\ ~tmpOpen)
    /\ (ppc = "cleanup" \/ removes # <<>>) => (closes = 1 /\ ~tmpOpen)

\* C20 witness: an error path closed the handle once and then removed the file.
C20_Witness ==
    /\ ProcReturned
    /\ err = "ErrValidationFailed"
    /\ closes = 1
    /\ removes = <<"Process">>
    /\ ~onDisk

\* ------------------------------------------------------- the tagging poll loop

\* Every answer before position n of the fetch log was Pending.
PendingBefore(n) == \A i \in 1..(n - 1) : fetchLog[i] = "pending"

\* Some RetrieveBookmarkById call of the poll loop returned an error.
FetchErrored == \E i \in 1..Len(fetchLog) : fetchLog[i] = "error"

\* C11: if RetrieveBookmarkById returns an error during polling (a transport
\* error or a status other than 200) the handler aborts at once: that fetch is
\* the last one, no sleep follows it, no reply is sent and the original message
\* is not deleted.
C11_FetchErrorAborts ==
    FetchErrored =>
        /\ fetchLog[Len(fetchLog)] = "error"
        /\ PendingBefore(Len(fetchLog))
        /\ sleeps = Len(fetchLog) - 1
        /\ hpc = "done"
        /\ outcome = "fetchFailed"
        /\ replies = 0
        /\ ~deleted

\* C11 witness: a Pending answer, a sleep, then a fetch error ended the handler.
C11_Witness ==
    /\ fetchLog = <<"pending", "error">>
    /\ sleeps = 1
    /\ hpc = "done"
    /\ replies = 0

\* The snapshot held is a Success one.
Tagged == taggingStatus = "success"

\* C12: against a backend that answers Pending k times and then Success, with
\* no fetch error, the poll loop ends after exactly k + 1 fetches and k sleeps,
\* the snapshot used for the reply is the final Success one, and the handler
\* terminates (a malformed 200 answer, outside this backend, ends it by a
\* panic).
C12_PendingThenSuccess ==
    /\ [](Tagged =>
            /\ fetchLog[Len(fetchLog)] = "success"
            /\ PendingBefore(Len(fetchLog))
            /\ sleeps = Len(fetchLog) - 1
            /\ hpc \in {"send", "delete", "pkbSend", "pkbDelete", "done"})
    /\ (hpc \in {"fetch", "pkbFetch"}) ~> (hpc \in {"done", "panicked"})

\* C12 witness: two Pending answers, two sleeps, Success on the third fetch, and
\* the reply sent.
C12_Witness ==
    /\ fetchLog = <<"pending", "pending", "success">>
    /\ sleeps = 2
    /\ Tagged
    /\ replies = 1

\* The backend has answered Pending to all of n fetches, n >= 1.
AllPending(n) == Len(fetchLog) = n /\ PendingBefore(n + 1)

\* C13: while the backend keeps answering Pending and fetches succeed, the loop
\* sleeps once and fetches again every time, whatever the number of attempts so
\* far: after n Pending answers the handler is sleeping or fetching, never
\* done, and an (n+1)-th fetch follows.
C13_PendingAlwaysRetried ==
    /\ [](\A n \in 1..MaxPending :
            AllPending(n) =>
                /\ hpc \in {"sleep", "fetch", "pkbSleep", "pkbFetch"}
                /\ sleeps = IF hpc \in {"sleep", "pkbSleep"} THEN n - 1 ELSE n)
    /\ \A n \in 1..MaxPending : AllPending(n) ~> (Len(fetchLog) = n + 1)

\* C13 witness: after the second Pending answer and the second sleep the
\* handler is at its third fetch.
C13_Witness ==
    /\ AllPending(2)
    /\ sleeps = 2
    /\ hpc = "fetch"

\* C15, as stated: cancelling the handler's context while Process is fetching
\* a file makes Process stop and return an error identifying cancellation.
C15_CancelReachesDownload ==
    (hpc = "process" /\ ProcReturned /\ ctxCancelled) =>
        (err # "nil" /\ cause = "cancelled")

\* ------------------------------------------------ CreateAsset: result, stream

\* C21, as stated: when zero bytes were copied into the multipart file field,
\* CreateAsset never returns an asset, whatever status the remote returns.
C21_EmptyUploadFails ==
    (CaReturned /\ copied = 0) => result.kind # "asset"

\* C22, as stated: with the request completed and no producer error, a status
\* of 200 or 201 is a success returning the asset and every other status is an
\* upload failure carrying the status.
C22_CreatedIsSuccess ==
    (CaReturned /\ httpErr = "nil" /\ result.kind # "producer") =>
        IF status \in {"200", "201"}
        THEN result.kind = "asset"
        ELSE result = [kind |-> "status", detail |-> status]

\* The goroutine is inside one of its three writes to the pipe.
AtPipeWrite == gpc \in {"createPart", "copy", "writerClose"}

\* C23: the encoded bytes produced and not yet consumed by the request-body
\* reader are never more than one pending Write: bytes wait in the pipe only
\* while the goroutine is still inside the Write that offered them, so no
\* further Write starts before they are consumed, whatever the file size.
C23_OnePendingWrite ==
    /\ pending # "none" => (writing /\ AtPipeWrite)
    /\ writing => AtPipeWrite
    /\ pending = "header" => (gpc = "createPart" /\ copied = 0)
    /\ pending = "chunk" => (gpc = "copy" /\ chunksLeft > 0)
    /\ pending = "trailer" => gpc = "writerClose"

\* C23 witness: the second chunk waits in the pipe, the first one consumed.
C23_Witness ==
    /\ pending = "chunk"
    /\ writing
    /\ copied = 1
    /\ chunksLeft = 1

\* C24: the goroutine puts at most one error on errChan, the one-slot buffer is
\* free when it does so the send never blocks, and the channel is closed once,
\* as the goroutine's last step, after any send.
C24_SingleCompletionSignal ==
    /\ Len(errChan) <= 1
    /\ errChan # <<>> => errChan = <<sent>>
    /\ (gpc = "send" /\ goErr # "nil") => (errChan = <<>> /\ sent = "nil" /\ ~errChanClosed)
    /\ sent # "nil" => gpc \in {"writerClose", "pipeClose", "chanClose", "done"}
    /\ errChanClosed <=> gpc = "done"

\* C24 witness: the error was sent, is still buffered, and the channel is closed.
C24_Witness ==
    /\ errChan = <<"failed to open file">>
    /\ errChanClosed
    /\ gpc = "done"

\* ------------------------------------------------- cleanup errors, release

\* C26, as stated: within one ingestion the temp file is released last: once
\* handlePhotoMessage has called Cleanup on it, the bookmark has been created,
\* polling has finished and the reply has been sent, or the pipeline has
\* aborted.
C26_ReleasedLast ==
    (msg = "photo" /\ removes = <<"handlePhotoMessage">>) =>
        \/ hpc = "done"
        \/ bookmarks = 1 /\ Tagged /\ replies = 1

\* C29: a local cleanup error never masks an earlier error. In Process the
\* deferred close changes err only when err is nil, and the removal never
\* changes it; in handlePhotoMessage the deferred Cleanup changes err only when
\* the upload returned no error.
C29_CleanupNeverMasks ==
    [][/\ (ppc = "close" /\ err # "nil") => (err' = err /\ cause' = cause)
       /\ (ppc = "close" /\ cause' = "close") => (err = "nil" /\ path = "tmp")
       /\ ppc = "cleanup" => (err' = err /\ cause' = cause)
       /\ (hpc = "hpmCleanup" /\ hpmErr # "nil") => hpmErr' = hpmErr
       /\ (hpc = "hpmCleanup" /\ hpmErr' = "cleanup") => (hpmErr = "nil" /\ assets = 1)]_vars

\* C29 witness: the upload failed, the deferred Cleanup failed as well, and
\* handlePhotoMessage still reports the upload error.
C29_Witness ==
    /\ PhotoDone
    /\ hpmErr = "couldn't upload asset"
    /\ removes = <<"handlePhotoMessage">>
    /\ onDisk

\* C30, as stated: for every payload ImageValidator accepts, Process with a nil
\* validator, its sniff having run, returns the content type Process with
\* ImageValidator returns.
C30_SameDetection ==
    (ProcReturned /\ validator = "nil" /\ err = "nil" /\ contentType # ""
                  /\ ImageValidator(body.kind, bytesWritten)[2] = "nil") =>
        contentType = ImageValidator(body.kind, bytesWritten)[1]

\* C25, as stated: a failed photo ingestion leaves no bookmark: when the
\* handler has ended without an uploaded asset, no CreateBookmark call created
\* a bookmark and no poll was made.
C25_NoBookmarkWithoutAsset ==
    (hpc = "done" /\ msg = "photo" /\ assets = 0) => (bookmarks = 0 /\ fetchLog = <<>>)

\* ------------------------------------------------ the temp file's lifetime

\* C27: within one ingestion the download's writes, the content-type read, the
\* uploader's reads, CreateAsset's receive from the producer and the removal
\* follow in this order: the upload starts only after Process has written,
\* sniffed and closed the file, the file is never removed while the producer
\* has it open, and handlePhotoMessage removes it only after CreateAsset has
\* returned.
C27_WriteReadUploadRemove ==
    /\ ppc \in {"createTemp", "get", "copy", "size", "detect", "close", "cleanup"} =>
          (cpc = "idle" /\ ~fileOpen)
    /\ cpc # "idle" => (ProcReturned /\ err = "nil" /\ ~tmpOpen)
    /\ fileOpen => (onDisk /\ removes = <<>> /\ hpc = "createAsset" /\ cpc # "returned")
    /\ removes = <<"handlePhotoMessage">> => (cpc = "returned" /\ ~fileOpen)

\* C27 witness: written, sniffed, uploaded in two chunks, then removed.
C27_Witness ==
    /\ removes = <<"handlePhotoMessage">>
    /\ ~onDisk
    /\ contentType # ""
    /\ copied = MaxChunks
    /\ assets = 1

\* ------------------------------------------------- concurrent ingestions

\* C28: two ingestions that overlap in time hold distinct temp files, and the
\* file of an ingestion that is still writing, validating or uploading is on
\* disk: no other ingestion's cleanup has removed it.
C28_NoSharedTempFile ==
    /\ \A i, j \in Ingestions :
          (i # j /\ InUse(i) /\ InUse(j)) => ing[i].path # ing[j].path
    /\ \A i \in Ingestions :
          ing[i].pc \in {"writing", "validating", "uploading"} => ing[i].path \in tempdir

\* C28 witness: an ingestion that created its file while another held one is
\* still uploading it after the other has cleaned its own away.
C28_Witness ==
    \E i, j \in Ingestions :
        /\ i # j
        /\ ing[i].pc = "done"
        /\ ing[i].path \in Names \ tempdir
        /\ ing[j].pc = "uploading"
        /\ ing[j].overlapped
        /\ ing[j].path \in tempdir

\* ----------------------------------------------------- ImageValidator alone

\* ImageValidator has returned without a seek or read failure.
Validated == ppc \in {"testDone", "testEnd"} /\ cause = "none"

\* C31: ImageValidator returns image/webp exactly for a file of at least 12
\* bytes with RIFF at 0-3 and WEBP at 8-11, also where the generic sniff does
\* not say so; otherwise image/png for the 8-byte PNG signature and image/jpeg
\* for the 3-byte JPEG signature; for every other file, the empty one and the
\* 4-byte RIFF one included, an error and an empty content type.
C31_ValidatorTable ==
    Validated =>
        /\ contentType = "image/webp" <=> (body.kind = "webp" /\ bytesWritten >= 12)
        /\ contentType = "image/png" <=> (body.kind = "png" /\ bytesWritten >= 8)
        /\ contentType = "image/jpeg" <=> (body.kind = "jpeg" /\ bytesWritten >= 3)
        /\ contentType \in AllowedTypes \cup {""}
        /\ contentType = "" <=> err # "nil"

\* C31 witness: a 12-byte RIFF/WEBP file, which the generic sniff does not
\* recognise, was accepted as image/webp.
C31_Witness ==
    /\ Validated
    /\ body.kind = "webp"
    /\ bytesWritten = 12
    /\ DetectContentType(body.kind, bytesWritten) # "image/webp"
    /\ contentType = "image/webp"
    /\ err = "nil"

\* ------------------------------------------------------------ the allowlist

\* C32: a message from a chat outside a non-empty allowlist, or from a thread
\* outside a non-empty thread list, causes no external action: no file URL
\* request, no download, no upload, no Karakeep request, no reply, no deletion;
\* with an empty allowlist no chat ID is refused.
C32_NotAllowedDoesNothing ==
    /\ ((allowlist # {} /\ chatId \notin allowlist)
          \/ (threads # {} /\ threadId \notin threads)) =>
            /\ hpc \in {"start", "done"}
            /\ outcome \in {"none", "notAllowed"}
            /\ ppc = "idle"
            /\ cpc = "idle"
            /\ assets = 0
            /\ bookmarks = 0
            /\ fetchLog = <<>>
            /\ warnings = 0
            /\ replies = 0
            /\ ~deleted
    /\ (allowlist = {} /\ (threads = {} \/ threadId \in threads) /\ hpc # "start") =>
            outcome # "notAllowed"

\* C32 witness: the handler has returned for a message of a chat that is not on
\* the configured allowlist.
C32_Witness ==
    /\ allowlist # {}
    /\ chatId \notin allowlist
    /\ hpc = "done"
    /\ outcome = "notAllowed"

\* --------------------------------------------------------- the best photo

\* C33, as stated: BestPhotoFileID is the photo with the largest positive
\* FileSize, the first such on ties; when no photo has a positive FileSize it
\* is the last photo of the list; for an empty list it is empty.
C33_BestPhotoChoice ==
    bpc = "returned" =>
        IF photos = <<>> THEN best = 0
        ELSE IF \E i \in 1..Len(photos) : photos[i].size > 0
             THEN /\ best \in 1..Len(photos)
                  /\ photos[best].size > 0
                  /\ \A i \in 1..Len(photos) : photos[i].size <= photos[best].size
                  /\ \A i \in 1..(best - 1) : photos[i].size < photos[best].size
             ELSE best = Len(photos)

\* ------------------------------------------------------------ the size limit

\* The copy ended without an error and the size check has been made.
SizeChecked == ppc \in {"detect", "close", "cleanup", "returned"}
               /\ cause \notin {"createTemp", "get", "status", "bodyRead", "copy"}

\* C34: whatever the body's length, and whether or not the copy fails on the
\* way, Process never writes more than maxsize + 1 bytes, and the payload is
\* judged over the limit exactly when more than maxsize bytes were written;
\* below the top of the integer type that is exactly when the body is longer
\* than maxsize.
C34_AtMostOneSentinelByte ==
    /\ bytesWritten <= maxsize + 1
    /\ SizeChecked =>
          /\ cause = "exceeds" <=> bytesWritten > maxsize
          /\ maxsize < MaxInt64 =>
                /\ bytesWritten = Min(body.len, maxsize + 1)
                /\ cause = "exceeds" <=> body.len > maxsize

\* C34 witness: a body two bytes past the ceiling was cut at maxsize + 1 bytes
\* and judged over the limit.
C34_Witness ==
    /\ ProcReturned
    /\ body.len = maxsize + MaxOver
    /\ bytesWritten = maxsize + 1
    /\ cause = "exceeds"
    /\ err = "ErrValidationFailed"

\* ------------------------------------------------------ the configured types

\* C35, as stated: with a non-empty fileprocessor.mimetypes list, a photo
\* whose detected content type is not on the list is never uploaded as an
\* asset.
C35_MimetypesEnforced ==
    (assets > 0 /\ contentType # "" /\ config.Mimetypes # <<>>) =>
        \E i \in 1..Len(config.Mimetypes) : config.Mimetypes[i] = contentType

\* C36, as stated: config.New returns only configurations whose fileprocessor
\* section passes its validation, and a Processor is built only from a positive
\* maxsize and timeout.
C36_ValidatedBeforeUse ==
    /\ bootpc \in {"loaded", "processor", "running"} => FileProcessorValidate(config)
    /\ bootpc \in {"processor", "running"} => (maxsize > 0 /\ config.Timeout > 0)

\* ------------------------------------------------- CreateAsset's return

C38_NoNilDereference == hpc # "panicked"

\* ------------------------------------------- files named by photo file ID

\* C39, as stated: while a handler is uploading tempDir/<BestPhotoFileID>.jpg,
\* the file is on disk, no other handler's deferred removal having deleted it,
\* and no other handler's download has truncated it and is writing it.
C39_SameFileIdNoInterference ==
    \A j \in Ingestions :
        ing[j].pc = "uploading" =>
            /\ ing[j].path \in tempdir
            /\ \A i \in Ingestions \ {j} :
                  ~(ing[i].pc = "writing" /\ ing[i].path = ing[j].path)

\* ------------------------------------------------ reply before deletion

====
